---------------------------- MODULE Spec2Model ----------------------------
(***************************************************************************)
(* PrinterMonitor Pro proxy: the telemetry collector (monitoring/collector *)
(* .py, utils/snmp.py) and the storage pipeline (storage/local.py,         *)
(* storage/cloud.py).                                                      *)
(*                                                                         *)
(* Spec      a client calling the Storage Port operations one after the    *)
(*           other; a Remote Store call is followed attempt by attempt.    *)
(* SpecPass  one polling pass of monitor_multiple_printers over the        *)
(*           asyncio event loop, the tasks saving through the same         *)
(*           Storage Port.                                                 *)
(* SpecStore  LocalStorage calls of several threads, statement by          *)
(*           statement.                                                    *)
(* SpecDecode one call of calculate_toner_percentage.                      *)
(* SpecQuery  one call of snmp_get.                                        *)
(* SpecScan   one call of get_printer_metrics_async on one device.         *)
(* SpecFactory one call of get_storage under one environment, then a       *)
(*           health_check on the backend.                                  *)
(* SpecMain   one run of main.py.                                          *)
(* SpecSink   the cloud API's ingest_metrics (server routes/metrics.py).   *)
(***************************************************************************)
EXTENDS Integers, Sequences, FiniteSets, TLC

VARIABLES
    config,     \* Config: MODE, CLOUD_RETRY_ATTEMPTS, CLOUD_ENABLE_BUFFER
    local,      \* the LocalStorage instance: <<>> (none) or <<database>>
    cloud,      \* what the remote sink has accepted: printers and rows
    call,       \* the Storage Port call running on the thread
    ncalls,     \* Storage Port calls started by the client
    returned,   \* caller -> the Storage Port call that last returned to it
    known,      \* addresses get_or_create_printer has returned to its caller
    printers,   \* the list handed to monitor_multiple_printers
    device,     \* device behaviour: address -> profile name
    task,       \* monitor_printer coroutines: address -> frame
    loop,       \* the task holding the event loop thread, or NoAddr
    status,     \* monitor_multiple_printers' result map, <<>> until returned
    thread,     \* LocalStorage calls running on one database file: thread -> frame
    lock,       \* the thread whose connection holds the write lock, or NoThread
    decode,     \* one calculate_toner_percentage call: its arguments and result
    scan,       \* one get_printer_metrics_async call: the device's answers and its frame
    clock,      \* the wall clock datetime.now() reads, in seconds
    query,      \* one snmp_get call: what the transport answers and what it returns
    factory,    \* one get_storage call: CLOUD_API_URL, CLOUD_API_KEY and what it returned
    entry,      \* one run of main.py: the command, the store and how far main() got
    server      \* the cloud API's database and one ingest_metrics request

vars == <<config, local, cloud, call, ncalls, returned, known, printers, device, task, loop, status,
         thread, lock, decode, scan, clock, query, factory, entry, server>>
storeVars == <<config, local, cloud, call, ncalls, returned, known>>
passVars == <<printers, device, task, loop, status>>
auxVars == <<thread, lock, decode, scan>>
moreVars == <<factory, entry, server>>

-----------------------------------------------------------------------------
(* Bounds of the model *)

NumDevices == 2      \* device addresses 1..NumDevices
MaxRetry == 2        \* CLOUD_RETRY_ATTEMPTS ranges over 0..MaxRetry
MaxCalls == 3        \* Storage Port calls the client makes
NumThreads == 2      \* threads calling one LocalStorage
MaxOps == 2          \* LocalStorage calls the threads make
MaxLevel == 30       \* supply levels a device reports: up to MaxLevel
MaxCapacity == 50    \* supply capacities a device reports: up to MaxCapacity
NumProxies == 2      \* proxy devices with an API key of the cloud API
MaxIngest == 2       \* ingest requests the cloud API serves
ScanSlots == 3       \* supply slots 1..ScanSlots of a scanned device hold supplies

(* Program constants *)

SupplySlots == 9     \* collector.py: for index in range(1, 10)
RetryDelay == 5      \* settings.py: CLOUD_RETRY_DELAY, seconds

Addrs == 1..NumDevices
NoAddr == 0          \* None where an address is expected

\* Who calls the Storage Port: the client (NoAddr) or the task of a device
Callers == {NoAddr} \cup Addrs

\* Optional values: None is the empty sequence, a value x is <<x>>
None == <<>>
Some(x) == <<x>>
Get(o) == o[1]

\* Below, CHOOSE r \in {e(x) : x \in {v}} : TRUE is e(v) with v evaluated once
\* and held in x, as an assignment x = v followed by return e(x)

-----------------------------------------------------------------------------
(* Text: a str is a sequence of one-character strings *)

UpperCase == <<"A","B","C","D","E","F","G","H","I","J","K","L","M",
               "N","O","P","Q","R","S","T","U","V","W","X","Y","Z">>
LowerCase == <<"a","b","c","d","e","f","g","h","i","j","k","l","m",
               "n","o","p","q","r","s","t","u","v","w","x","y","z">>
Digits == <<"0","1","2","3","4","5","6","7","8","9">>
Whitespace == {" ", "\t", "\n", "\r"}

IndexIn(c, alphabet) ==
    IF \E i \in 1..Len(alphabet) : alphabet[i] = c
    THEN CHOOSE i \in 1..Len(alphabet) : alphabet[i] = c
    ELSE 0

\* str.lower()
Lower(s) ==
    [i \in 1..Len(s) |->
        IF IndexIn(s[i], UpperCase) > 0 THEN LowerCase[IndexIn(s[i], UpperCase)]
        ELSE s[i]]

\* sub in s
Contains(s, sub) ==
    \E i \in 0..(Len(s) - Len(sub)) :
        \A j \in 1..Len(sub) : s[i + j] = sub[j]

\* str.strip()
Strip(s) ==
    LET keep == {i \in 1..Len(s) : s[i] \notin Whitespace}
    IN IF keep = {} THEN <<>>
       ELSE LET lo == CHOOSE i \in keep : \A j \in keep : i <= j
                hi == CHOOSE i \in keep : \A j \in keep : j <= i
            IN SubSeq(s, lo, hi)

\* the number the first n characters of s, all digits, denote
RECURSIVE DigitsValue(_, _)
DigitsValue(s, n) ==
    IF n = 0 THEN 0
    ELSE 10 * DigitsValue(s, n - 1) + (IndexIn(s[n], Digits) - 1)

MaxDoubleDigits == 309   \* sys.float_info.max is 1.7976931348623157e+308

\* int(s): surrounding whitespace, an optional sign, decimal digits; anything
\* else is a ValueError (ok = FALSE).  huge: the number has more digits than
\* any double, and val only keeps its sign; the model has no numeral between
\* 10 digits and that size
PyInt(s) ==
    CHOOSE r \in
        {LET signed == Len(t) > 0 /\ t[1] \in {"+", "-"}
             body == IF signed THEN SubSeq(t, 2, Len(t)) ELSE t
             wellformed == Len(body) > 0 /\ \A i \in 1..Len(body) : IndexIn(body[i], Digits) > 0
             negative == signed /\ t[1] = "-"
         IN IF ~wellformed THEN [ok |-> FALSE, val |-> 0, huge |-> FALSE]
            ELSE IF Len(body) > MaxDoubleDigits /\ body[1] # "0"
            THEN [ok |-> TRUE, val |-> IF negative THEN 0 - 2147483647 ELSE 2147483647,
                  huge |-> TRUE]
            ELSE [ok |-> TRUE,
                  val |-> IF negative THEN 0 - DigitsValue(body, Len(body))
                          ELSE DigitsValue(body, Len(body)),
                  huge |-> FALSE]
         : t \in {Strip(s)}} : TRUE

\* str(n) of an int
RECURSIVE NatText(_)
NatText(n) ==
    IF n < 10 THEN <<Digits[n + 1]>>
    ELSE NatText(n \div 10) \o <<Digits[(n % 10) + 1]>>

IntText(n) == IF n < 0 THEN <<"-">> \o NatText(0 - n) ELSE NatText(n)

\* truth value of an optional str: not None and not ""
Truthy(o) == o # None /\ Len(Get(o)) > 0

-----------------------------------------------------------------------------
(* IEEE-754 binary64 arithmetic, as far as int((a / b) * 100) needs it.    *)
(* A positive double is [mant, exp]: 53 bits, most significant first,      *)
(* mant[1] = 1, and exp the power of two of mant[1].                       *)

MantissaBits == 53   \* sys.float_info.mant_dig

Pow2(k) == 2^k

\* int.bit_length()
BitLength(n) ==
    IF n = 0 THEN 0
    ELSE CHOOSE k \in 1..31 : Pow2(k - 1) <= n /\ (k = 31 \/ n < Pow2(k))

\* the low w bits of n, most significant first
Bits(n, w) == [i \in 1..w |-> (n \div Pow2(w - i)) % 2]

IntBits(n) == CHOOSE b \in {Bits(n, w) \o <<>> : w \in {BitLength(n)}} : TRUE

\* the number the first n bits of b denote
RECURSIVE BitsValue(_, _)
BitsValue(b, n) ==
    IF n = 0 THEN 0 ELSE 2 * BitsValue(b, n - 1) + b[n]

Zeros(n) == [i \in 1..n |-> 0]

\* long division in base 64 of the fraction r / m (0 <= r < m): the remainder
\* after k digits, and the k-th digit
RECURSIVE FracRem(_, _, _)
FracRem(r, m, k) ==
    IF k = 0 THEN r ELSE (64 * FracRem(r, m, k - 1)) % m

FracDigit(r, m, k) == (64 * FracRem(r, m, k - 1)) \div m

\* the first 6k bits of the binary fraction r / m
FracBits(r, m, k) ==
    [i \in 1..(6 * k) |->
        (FracDigit(r, m, ((i - 1) \div 6) + 1) \div Pow2(5 - ((i - 1) % 6))) % 2]

LeadingZeros(b) ==
    IF \A i \in 1..Len(b) : b[i] = 0 THEN Len(b)
    ELSE (CHOOSE i \in 1..Len(b) : b[i] = 1 /\ \A j \in 1..(i - 1) : b[j] = 0) - 1

\* b + 1; one bit longer when b is all ones
BitsInc(b) ==
    IF \A i \in 1..Len(b) : b[i] = 1 THEN <<1>> \o Zeros(Len(b))
    ELSE LET p == CHOOSE i \in 1..Len(b) : b[i] = 0 /\ \A j \in (i + 1)..Len(b) : b[j] = 1
         IN [i \in 1..Len(b) |-> IF i < p THEN b[i] ELSE IF i = p THEN 1 ELSE 0]

\* round to nearest, ties to even: b are the leading bits of the exact value
\* (b[1] = 1, of exponent e), tail says whether nonzero bits follow b
RoundToDouble(b, tail, e) ==
    IF Len(b) <= MantissaBits
    THEN [mant |-> b \o Zeros(MantissaBits - Len(b)), exp |-> e]
    ELSE CHOOSE x \in
        {LET guard == b[MantissaBits + 1]
             sticky == tail \/ \E i \in (MantissaBits + 2)..Len(b) : b[i] = 1
         IN IF ~(guard = 1 /\ (sticky \/ m[MantissaBits] = 1))
            THEN [mant |-> m, exp |-> e]
            ELSE CHOOSE y \in
                    {IF Len(inc) > MantissaBits
                     THEN [mant |-> SubSeq(inc, 1, MantissaBits), exp |-> e + 1]
                     ELSE [mant |-> inc, exp |-> e]
                     : inc \in {BitsInc(m) \o <<>>}} : TRUE
         : m \in {SubSeq(b, 1, MantissaBits)}} : TRUE

\* a / b of two ints, a > 0 and 0 < b < 2^25: the correctly rounded quotient
FloatDiv(a, b) ==
    IF a \div b > 0
    THEN CHOOSE x \in
            {RoundToDouble(lead, FracRem(a % b, b, 9) # 0, Len(lead) - 55)
             : lead \in {IntBits(a \div b) \o FracBits(a % b, b, 9)}} : TRUE
    ELSE CHOOSE x \in
            {CHOOSE y \in
                {RoundToDouble(lead, FracRem(a, b, 14) # 0, Len(lead) - 85)
                 : lead \in {SubSeq(f, LeadingZeros(f) + 1, Len(f))}} : TRUE
             : f \in {FracBits(a, b, 14) \o <<>>}} : TRUE

\* x * 100, the mantissa cut into limbs of 13, 20 and 20 bits
FloatTimes100(x) ==
    CHOOSE y \in
        {LET mid == l2 + (l3 \div Pow2(20))
             hi == l1 + (mid \div Pow2(20))
         IN CHOOSE z \in
                {RoundToDouble(p, FALSE, x.exp + Len(p) - MantissaBits)
                 : p \in {IntBits(hi) \o Bits(mid % Pow2(20), 20) \o Bits(l3 % Pow2(20), 20)}}
                : TRUE
         : l1 \in {100 * BitsValue(x.mant, 13)},
           l2 \in {100 * BitsValue(SubSeq(x.mant, 14, 33), 20)},
           l3 \in {100 * BitsValue(SubSeq(x.mant, 34, 53), 20)}} : TRUE

\* int(x): truncation
FloatTrunc(x) ==
    IF x.exp < 0 THEN 0 ELSE BitsValue(x.mant, x.exp + 1)

\* int((current_val / max_val) * 100) for current_val >= 0, max_val > 0
Percentage(current_val, max_val) ==
    IF current_val = 0 THEN 0
    ELSE CHOOSE pct \in
            {FloatTrunc(y) : y \in {FloatTimes100(x) : x \in {FloatDiv(current_val, max_val)}}}
            : TRUE

-----------------------------------------------------------------------------
(* utils/snmp.py *)

TextOK == <<"O","K">>
TextUnknown == <<"U","n","k","n","o","w","n">>
TextStatus == <<"S","t","a","t","u","s",":"," ">>
TextCannot == <<"C","a","n","n","o","t"," ","c","a","l","c","u","l","a","t","e">>
TextError == <<"E","r","r","o","r">>
TextNoSuch == <<"N","o"," ","S","u","c","h">>

\* calculate_toner_percentage that looks at max_capacity before it looks at
\* the special values of current
calculate_toner_percentage_maxfirst(current, max_capacity) ==
    CHOOSE r \in
        {IF ~c.ok \/ ~m.ok THEN <<None, Some(TextError)>>
         ELSE IF m.val <= 0 THEN <<None, Some(TextCannot)>>
         ELSE IF c.val = -3 THEN <<None, Some(TextOK)>>
         ELSE IF c.val = -2 THEN <<None, Some(TextUnknown)>>
         ELSE IF c.val < 0 THEN <<None, Some(TextStatus \o IntText(c.val))>>
         ELSE <<Some(Percentage(c.val, m.val)), None>>
         : c \in {PyInt(current)}, m \in {PyInt(max_capacity)}} : TRUE

\* calculate_toner_percentage without the max_val > 0 half of the test: it
\* divides by every max_val but -2, and ZeroDivisionError gives "Error"
calculate_toner_percentage_unguarded(current, max_capacity) ==
    CHOOSE r \in
        {IF ~c.ok \/ ~m.ok THEN <<None, Some(TextError)>>
         ELSE IF c.val = -3 THEN <<None, Some(TextOK)>>
         ELSE IF c.val = -2 THEN <<None, Some(TextUnknown)>>
         ELSE IF c.val < 0 THEN <<None, Some(TextStatus \o IntText(c.val))>>
         ELSE IF m.val # -2
         THEN IF m.val = 0 THEN <<None, Some(TextError)>>
              ELSE IF c.huge THEN <<None, None>>
              ELSE IF m.val > 0 THEN <<Some(Percentage(c.val, m.val)), None>>
              ELSE <<Some(0 - Percentage(c.val, 0 - m.val)), None>>
         ELSE <<None, Some(TextCannot)>>
         : c \in {PyInt(current)}, m \in {PyInt(max_capacity)}} : TRUE

\* calculate_toner_percentage: <<percentage, status>>, each optional.
\* <<None, None>> is no return at all: current_val / max_val of a huge
\* current_val raises OverflowError, which except (ValueError,
\* ZeroDivisionError) lets through (the model has no huge max_capacity)
calculate_toner_percentage(current, max_capacity) ==
    CHOOSE r \in
        {IF ~c.ok \/ ~m.ok THEN <<None, Some(TextError)>>
         ELSE IF c.val = -3 THEN <<None, Some(TextOK)>>
         ELSE IF c.val = -2 THEN <<None, Some(TextUnknown)>>
         ELSE IF c.val < 0 THEN <<None, Some(TextStatus \o IntText(c.val))>>
         ELSE IF m.val > 0 /\ m.val # -2
         THEN IF c.huge THEN <<None, None>> ELSE <<Some(Percentage(c.val, m.val)), None>>
         ELSE <<None, Some(TextCannot)>>
         : c \in {PyInt(current)}, m \in {PyInt(max_capacity)}} : TRUE

\* What the transport answers to one getCmd: an error indication (a timeout
\* among them), an error status, an exception, or a value
Timeout == [kind |-> "errorIndication", text |-> <<>>]
ErrorStatus == [kind |-> "errorStatus", text |-> <<>>]
Raised == [kind |-> "exception", text |-> <<>>]
Value(t) == [kind |-> "value", text |-> t]

\* snmp_get that returns the value without the whitespace around it
snmp_get_stripped(answer) ==
    IF answer.kind # "value" THEN None
    ELSE IF ~Contains(answer.text, TextNoSuch) /\ Len(Strip(answer.text)) > 0
    THEN Some(Strip(answer.text))
    ELSE None

\* snmp_get: the value as text, or None
snmp_get(answer) ==
    IF answer.kind # "value" THEN None
    ELSE IF ~Contains(answer.text, TextNoSuch) /\ Len(Strip(answer.text)) > 0
    THEN Some(answer.text)
    ELSE None

-----------------------------------------------------------------------------
(* storage/local.py: LocalStorage over a database of two tables.  An       *)
(* operation is an operator from the database to [db, ret].                *)

\* _init_database on a new file
EmptyDatabase == [printers |-> <<>>, metrics |-> <<>>]

\* The characters of the model in code point order
CodePoints == <<" ", "+", "-", ":">> \o Digits \o UpperCase \o LowerCase

\* BINARY collation of two TEXT values
TextLess(s, t) ==
    \E i \in 1..(Len(t)) :
        /\ \A j \in 1..(i - 1) : j <= Len(s) /\ s[j] = t[j]
        /\ \/ i = Len(s) + 1
           \/ i <= Len(s) /\ IndexIn(s[i], CodePoints) < IndexIn(t[i], CodePoints)

\* ORDER BY of one nullable TEXT column: NULL sorts first
NullableLess(a, b) ==
    \/ a = None /\ b # None
    \/ a # None /\ b # None /\ TextLess(Get(a), Get(b))

\* ORDER BY location, name; rows equal in both keep the order of their ids
RowBefore(r, q) ==
    \/ NullableLess(r.location, q.location)
    \/ r.location = q.location /\ TextLess(r.name, q.name)
    \/ r.location = q.location /\ r.name = q.name /\ r.id < q.id

OrderedRows(rows) ==
    LET n == Len(rows)
        rank(i) == Cardinality({j \in 1..n : RowBefore(rows[j], rows[i])}) + 1
    IN [k \in 1..n |-> rows[CHOOSE i \in 1..n : rank(i) = k]]

\* SELECT ... FROM printers WHERE ip = ?, fetchone()
SelectPrinter(db, ip) ==
    IF \E i \in 1..Len(db.printers) : db.printers[i].ip = ip
    THEN Some(db.printers[CHOOSE i \in 1..Len(db.printers) : db.printers[i].ip = ip])
    ELSE None

\* INSERT INTO metrics (printer_id, timestamp, total_pages, ...) VALUES (...),
\* the timestamp bound to datetime.now()
InsertMetrics(db, db_printer_id, metrics) ==
    [db EXCEPT !.metrics = Append(@,
        [printer_id |-> db_printer_id,
         timestamp |-> clock,
         total_pages |-> metrics.total_pages,
         toner_level_pct |-> metrics.toner_level_pct,
         toner_status |-> metrics.toner_status,
         drum_level_pct |-> metrics.drum_level_pct,
         device_status |-> metrics.device_status])]

\* INSERT OR REPLACE INTO printers with the id of the last row for a table
\* that has one: the new printer takes the place of that row
InsertPrinter_replace(db, ip, name, location, model) ==
    IF db.printers = <<>>
    THEN [db EXCEPT !.printers = <<[id |-> 1, ip |-> ip, name |-> name,
                                    location |-> location, model |-> model]>>]
    ELSE [db EXCEPT !.printers[Len(db.printers)] =
            [id |-> Len(db.printers), ip |-> ip, name |-> name,
             location |-> location, model |-> model]]

\* INSERT INTO printers (ip, name, location, model) VALUES (...); id is the
\* AUTOINCREMENT key of a table no row is deleted from
InsertPrinter(db, ip, name, location, model) ==
    [db EXCEPT !.printers = Append(@,
        [id |-> Len(db.printers) + 1, ip |-> ip, name |-> name,
         location |-> location, model |-> model])]

\* A printers table without the UNIQUE constraint on ip
UniqueViolated_never(db, ip) == FALSE

\* ip TEXT UNIQUE NOT NULL: an INSERT of an ip the table holds fails
UniqueViolated(db, ip) == \E i \in 1..Len(db.printers) : db.printers[i].ip = ip

\* save_metrics that registers an address it does not find
Local_save_metrics_autoregister(db, printer_id, metrics) ==
    LET result == SelectPrinter(db, printer_id)
    IN IF result = None
       THEN [db |-> InsertMetrics(InsertPrinter(db, printer_id, <<>>, None, None),
                                  Len(db.printers) + 1, metrics),
             ret |-> TRUE]
       ELSE [db |-> InsertMetrics(db, Get(result).id, metrics), ret |-> TRUE]

\* save_metrics that stores the row of an address it does not find under the
\* printer id 0
Local_save_metrics_unresolved(db, printer_id, metrics) ==
    LET result == SelectPrinter(db, printer_id)
    IN IF result = None THEN [db |-> InsertMetrics(db, 0, metrics), ret |-> FALSE]
       ELSE [db |-> InsertMetrics(db, Get(result).id, metrics), ret |-> TRUE]

\* save_metrics that returns True without conn.commit(): the INSERT is rolled
\* back when the connection is closed
Local_save_metrics_uncommitted(db, printer_id, metrics) ==
    LET result == SelectPrinter(db, printer_id)
    IN IF result = None THEN [db |-> db, ret |-> FALSE]
       ELSE [db |-> db, ret |-> TRUE]

Local_save_metrics(db, printer_id, metrics) ==
    LET result == SelectPrinter(db, printer_id)
    IN IF result = None THEN [db |-> db, ret |-> FALSE]
       ELSE [db |-> InsertMetrics(db, Get(result).id, metrics), ret |-> TRUE]

\* get_or_create_printer that overwrites the name, location and model of a
\* printer it finds
Local_get_or_create_printer_upsert(db, ip, name, location, model) ==
    IF SelectPrinter(db, ip) # None
    THEN [db |-> [db EXCEPT !.printers =
                    [i \in 1..Len(db.printers) |->
                        IF db.printers[i].ip = ip
                        THEN [db.printers[i] EXCEPT !.name = name, !.location = location,
                                                    !.model = model]
                        ELSE db.printers[i]]],
          ret |-> ip]
    ELSE [db |-> InsertPrinter(db, ip, name, location, model), ret |-> ip]

Local_get_or_create_printer(db, ip, name, location, model) ==
    IF SelectPrinter(db, ip) # None THEN [db |-> db, ret |-> ip]
    ELSE [db |-> InsertPrinter(db, ip, name, location, model), ret |-> ip]

Local_get_printers(db) == [db |-> db, ret |-> OrderedRows(db.printers)]

Local_get_printer_by_ip(db, ip) == [db |-> db, ret |-> SelectPrinter(db, ip)]

Local_health_check(db) == [db |-> db, ret |-> TRUE]

-----------------------------------------------------------------------------
(* storage/cloud.py: CloudStorage.  A call runs on the calling thread: it  *)
(* blocks in session.get/post (pc = "request") and in time.sleep            *)
(* (pc = "sleep"), and everything between two blocking points is one step.  *)

NoMetrics ==
    [total_pages |-> None, model |-> None, device_status |-> None,
     toner_level_pct |-> None, toner_status |-> None, drum_level_pct |-> None]

NoRet == [ok |-> FALSE, ip |-> NoAddr, rows |-> <<>>, row |-> None]

\* No Storage Port call on the thread.  owner: the monitor_printer task that
\* called, NoAddr for another caller; attempts: the outcome of each session
\* call of _make_request so far; sleeps: the time.sleep calls so far; result:
\* <<>> until _make_request has returned, then <<what it returned>>;
\* buffered: the calls made on self.buffer; error: the exception that left the
\* operation, "" for none; timestamp: metrics['timestamp'] as the caller set
\* it; data_timestamp: data['timestamp'] of the request body
IdleCall ==
    [op |-> "none", owner |-> NoAddr, pc |-> "idle", ip |-> NoAddr, name |-> <<>>,
     location |-> None, model |-> None, metrics |-> NoMetrics,
     timestamp |-> None, data_timestamp |-> None,
     attempts |-> <<>>, sleeps |-> 0, result |-> <<>>, buffered |-> <<>>, error |-> "",
     ret |-> NoRet]

\* What one session.get/post can end in.  "ok": a 2xx status and a JSON body
\* that is true in a condition; "empty": a 2xx status and a JSON body that is
\* false in a condition ({}, [], null, 0); "status": an error status, which
\* raise_for_status turns into HTTPError; "neterr": ConnectionError or Timeout;
\* "scalar": a 2xx status and a JSON body that is true in a condition and is
\* no container (true, 1).  A "scalar" body takes the path of "ok" wherever
\* the code only tests it, so the model has it for get_printers alone, which
\* looks into it.  "null": a 2xx status and the JSON body null, for which
\* response.json() is None; it takes the path of "empty" wherever the code
\* tests if result, so the model has it for health_check alone, which tests
\* result is not None
Outcomes == {"ok", "empty", "status", "neterr", "scalar", "null"}
Answered2xx(o) == o \in {"ok", "empty", "scalar", "null"}
RequestException(o) == o \in {"status", "neterr"}

\* The remote sink stores what it answers with a 2xx status: a metrics row
\* (ingest_metrics), a printer created or, when its ip is known, updated
\* (register_printer)
Sink_register(cl, c) ==
    IF \E i \in 1..Len(cl.printers) : cl.printers[i].ip = c.ip
    THEN [cl EXCEPT !.printers =
            [i \in 1..Len(cl.printers) |->
                IF cl.printers[i].ip = c.ip
                THEN [cl.printers[i] EXCEPT !.name = c.name, !.location = c.location,
                                            !.model = c.model]
                ELSE cl.printers[i]]]
    ELSE [cl EXCEPT !.printers = Append(@,
            [id |-> Len(cl.printers) + 1, ip |-> c.ip, name |-> c.name,
             location |-> c.location, model |-> c.model])]

Sink_accept(cl, c) ==
    IF c.op = "save_metrics"
    THEN [cl EXCEPT !.rows = Append(@, [printer_id |-> c.ip, timestamp |-> c.data_timestamp,
                                        metrics |-> c.metrics])]
    ELSE IF c.op = "get_or_create_printer" THEN Sink_register(cl, c)
    ELSE cl

\* response.json() of a 2xx answer, as _make_request returns it; null: it is
\* None, the value of the body null
Sink_body(cl, c, o) ==
    [truthy |-> o \in {"ok", "scalar"},
     scalar |-> o = "scalar",
     null |-> o = "null",
     rows |-> IF o = "ok" /\ c.op = "get_printers" THEN Some(OrderedRows(cl.printers)) ELSE None,
     row |-> IF o = "ok" /\ c.op = "get_printer_by_ip" THEN SelectPrinter(cl, c.ip) ELSE None]

\* if result:
IsTrue(result) == result # None /\ Get(result).truthy

\* save_metrics that reports True whenever the sample went to the buffer,
\* whatever the buffer returned
Cloud_save_metrics_true(c, buffer, result) ==
    IF IsTrue(result) THEN [call |-> [c EXCEPT !.ret.ok = TRUE], local |-> buffer]
    ELSE IF buffer # None
    THEN LET b == Local_save_metrics(Get(buffer), c.ip, c.metrics)
         IN [call |-> [c EXCEPT !.ret.ok = TRUE,
                                !.buffered = Append(@, [op |-> c.op, ip |-> c.ip, metrics |-> c.metrics])],
             local |-> Some(b.db)]
    ELSE [call |-> [c EXCEPT !.ret.ok = FALSE], local |-> buffer]

\* The rest of the operation once _make_request has returned result (None, or
\* the body): [call, local]
Cloud_save_metrics(c, buffer, result) ==
    IF IsTrue(result) THEN [call |-> [c EXCEPT !.ret.ok = TRUE], local |-> buffer]
    ELSE IF buffer # None
    THEN LET b == Local_save_metrics(Get(buffer), c.ip, c.metrics)
         IN [call |-> [c EXCEPT !.ret.ok = b.ret,
                                !.buffered = Append(@, [op |-> c.op, ip |-> c.ip, metrics |-> c.metrics])],
             local |-> Some(b.db)]
    ELSE [call |-> [c EXCEPT !.ret.ok = FALSE], local |-> buffer]

\* get_or_create_printer that leaves the buffer alone when the remote
\* registration succeeded
Cloud_get_or_create_printer_unmirrored(c, buffer, result) ==
    LET b == Local_get_or_create_printer(Get(buffer), c.ip, c.name, c.location, c.model)
        logged == [c EXCEPT !.buffered = Append(@, [op |-> c.op, ip |-> c.ip, metrics |-> NoMetrics])]
    IN IF IsTrue(result)
       THEN [call |-> [c EXCEPT !.ret.ip = c.ip], local |-> buffer]
       ELSE IF buffer # None
            THEN [call |-> [logged EXCEPT !.ret.ip = b.ret], local |-> Some(b.db)]
            ELSE [call |-> [c EXCEPT !.ret.ip = NoAddr], local |-> buffer]

Cloud_get_or_create_printer(c, buffer, result) ==
    LET b == Local_get_or_create_printer(Get(buffer), c.ip, c.name, c.location, c.model)
        logged == [c EXCEPT !.buffered = Append(@, [op |-> c.op, ip |-> c.ip, metrics |-> NoMetrics])]
    IN IF IsTrue(result)
       THEN IF buffer # None
            THEN [call |-> [logged EXCEPT !.ret.ip = c.ip], local |-> Some(b.db)]
            ELSE [call |-> [c EXCEPT !.ret.ip = c.ip], local |-> buffer]
       ELSE IF buffer # None
            THEN [call |-> [logged EXCEPT !.ret.ip = b.ret], local |-> Some(b.db)]
            ELSE [call |-> [c EXCEPT !.ret.ip = NoAddr], local |-> buffer]

\* if result and 'printers' in result: the in of a bool or a number raises
\* TypeError, which nothing in CloudStorage catches
Cloud_get_printers(c, buffer, result) ==
    IF IsTrue(result) /\ Get(result).scalar
    THEN [call |-> [c EXCEPT !.error = "TypeError"], local |-> buffer]
    ELSE IF IsTrue(result) /\ Get(result).rows # None
    THEN [call |-> [c EXCEPT !.ret.rows = Get(Get(result).rows)], local |-> buffer]
    ELSE IF buffer # None
    THEN [call |-> [c EXCEPT !.ret.rows = Local_get_printers(Get(buffer)).ret,
                             !.buffered = Append(@, [op |-> c.op, ip |-> NoAddr, metrics |-> NoMetrics])],
          local |-> buffer]
    ELSE [call |-> [c EXCEPT !.ret.rows = <<>>], local |-> buffer]

\* get_printer_by_ip that returns None when the request failed, without
\* looking into the buffer
Cloud_get_printer_by_ip_remote_only(c, buffer, result) ==
    IF IsTrue(result)
    THEN [call |-> [c EXCEPT !.ret.row = Get(result).row], local |-> buffer]
    ELSE [call |-> [c EXCEPT !.ret.row = None], local |-> buffer]

Cloud_get_printer_by_ip(c, buffer, result) ==
    IF IsTrue(result)
    THEN [call |-> [c EXCEPT !.ret.row = Get(result).row], local |-> buffer]
    ELSE IF buffer # None
    THEN [call |-> [c EXCEPT !.ret.row = Local_get_printer_by_ip(Get(buffer), c.ip).ret,
                             !.buffered = Append(@, [op |-> c.op, ip |-> c.ip, metrics |-> NoMetrics])],
          local |-> buffer]
    ELSE [call |-> [c EXCEPT !.ret.row = None], local |-> buffer]

\* return result is not None
Cloud_health_check(c, buffer, result) ==
    [call |-> [c EXCEPT !.ret.ok = (result # None /\ ~Get(result).null)], local |-> buffer]

Cloud_return(c, buffer, result) ==
    LET r == CASE c.op = "save_metrics" -> Cloud_save_metrics(c, buffer, result)
               [] c.op = "get_or_create_printer" -> Cloud_get_or_create_printer(c, buffer, result)
               [] c.op = "get_printers" -> Cloud_get_printers(c, buffer, result)
               [] c.op = "get_printer_by_ip" -> Cloud_get_printer_by_ip(c, buffer, result)
               [] c.op = "health_check" -> Cloud_health_check(c, buffer, result)
    IN [call |-> [r.call EXCEPT !.pc = IF r.call.error = "" THEN "returned" ELSE "raised",
                                !.result = <<result>>],
        local |-> r.local]

\* The operation up to the first session call of _make_request: the request
\* body is built (save_metrics stamps it with datetime.now()), and with
\* retry_attempts <= 0 the for loop has no iteration and _make_request returns
\* None at once
Cloud_call(c, buffer, cfg) ==
    LET data == [c EXCEPT !.data_timestamp = IF c.op = "save_metrics" THEN Some(clock) ELSE None]
    IN IF cfg.retry_attempts > 0 THEN [call |-> [data EXCEPT !.pc = "request"], local |-> buffer]
       ELSE Cloud_return(data, buffer, None)

\* _make_request whose loop gives up one failure too late
\* (attempt < retry_attempts)
make_request_attempt_extra(c, buffer, cl, cfg, o) ==
    LET attempt == Len(c.attempts)
        c1 == [c EXCEPT !.attempts = Append(@, o)]
    IN IF Answered2xx(o) THEN Cloud_return(c1, buffer, Some(Sink_body(cl, c, o)))
       ELSE IF attempt < cfg.retry_attempts
       THEN [call |-> [c1 EXCEPT !.pc = "sleep"], local |-> buffer]
       ELSE Cloud_return(c1, buffer, None)

\* _make_request that retries a network failure and gives up at once on an
\* error status
make_request_attempt_status_final(c, buffer, cl, cfg, o) ==
    LET attempt == Len(c.attempts)
        c1 == [c EXCEPT !.attempts = Append(@, o)]
    IN IF Answered2xx(o) THEN Cloud_return(c1, buffer, Some(Sink_body(cl, c, o)))
       ELSE IF o # "status" /\ attempt < cfg.retry_attempts - 1
       THEN [call |-> [c1 EXCEPT !.pc = "sleep"], local |-> buffer]
       ELSE Cloud_return(c1, buffer, None)

\* _make_request that goes to its next attempt without time.sleep
make_request_attempt_nodelay(c, buffer, cl, cfg, o) ==
    LET attempt == Len(c.attempts)
        c1 == [c EXCEPT !.attempts = Append(@, o)]
    IN IF Answered2xx(o) THEN Cloud_return(c1, buffer, Some(Sink_body(cl, c, o)))
       ELSE IF attempt < cfg.retry_attempts - 1
       THEN [call |-> [c1 EXCEPT !.pc = "request"], local |-> buffer]
       ELSE Cloud_return(c1, buffer, None)

\* One iteration of the for loop of _make_request: the session call ends in
\* outcome o
make_request_attempt(c, buffer, cl, cfg, o) ==
    LET attempt == Len(c.attempts)
        c1 == [c EXCEPT !.attempts = Append(@, o)]
    IN IF Answered2xx(o) THEN Cloud_return(c1, buffer, Some(Sink_body(cl, c, o)))
       ELSE IF attempt < cfg.retry_attempts - 1
       THEN [call |-> [c1 EXCEPT !.pc = "sleep"], local |-> buffer]
       ELSE Cloud_return(c1, buffer, None)

\* The Local Store as the Storage Port (MODE = 'local'): [call, local]
Local_call(c, store) ==
    LET db == Get(store)
        save == Local_save_metrics(db, c.ip, c.metrics)
        reg == Local_get_or_create_printer(db, c.ip, c.name, c.location, c.model)
    IN CASE c.op = "save_metrics" ->
              [call |-> [c EXCEPT !.pc = "returned", !.ret.ok = save.ret], local |-> Some(save.db)]
         [] c.op = "get_or_create_printer" ->
              [call |-> [c EXCEPT !.pc = "returned", !.ret.ip = reg.ret], local |-> Some(reg.db)]
         [] c.op = "get_printers" ->
              [call |-> [c EXCEPT !.pc = "returned", !.ret.rows = Local_get_printers(db).ret], local |-> store]
         [] c.op = "get_printer_by_ip" ->
              [call |-> [c EXCEPT !.pc = "returned", !.ret.row = Local_get_printer_by_ip(db, c.ip).ret], local |-> store]
         [] c.op = "health_check" ->
              [call |-> [c EXCEPT !.pc = "returned", !.ret.ok = Local_health_check(db).ret], local |-> store]

\* storage.<op>(...) on the backend get_storage returned
Storage_call(c, store, cfg) ==
    IF cfg.MODE = "local" THEN Local_call(c, store) ELSE Cloud_call(c, store, cfg)

-----------------------------------------------------------------------------
(* Devices.  A profile fixes what the transport answers for each variable  *)
(* of one device during a pass.                                            *)

TextBlackToner == <<"B","l","a","c","k"," ","T","o","n","e","r">>
TextBlackToner2 == <<"b","l","a","c","k"," ","t","o","n","e","r"," ","2">>
TextDrum == <<"D","r","u","m"," ","U","n","i","t">>
TextWaste == <<"W","a","s","t","e">>
TextHP == <<"H","P">>
NoSuchInstance == Value(TextNoSuch \o <<" ","I","n","s","t","a","n","c","e">>)

SupplyKeys == {"description", "type", "unit", "max_capacity", "current_level"}

\* One supply slot that answers its description and both levels
Slot(desc, current, max, key) ==
    CASE key = "description" -> Value(desc)
      [] key = "current_level" -> Value(current)
      [] key = "max_capacity" -> Value(max)
      [] OTHER -> Value(<<"3">>)

Profiles == {"hung", "full", "partial", "odd"}

\* hung: no answer to any query.  full: pages, model, status, black toner
\* 45/100 in slot 1 and a drum reporting -3 in slot 3.  partial: the model
\* only, and two black toner slots, -3/100 in slot 2 and 30/60 in slot 5.
\* odd: it answers, and nothing of what it answers decodes
Answer(profile, var) ==
    CASE profile = "hung" -> Timeout
      [] profile = "full" ->
            (CASE var = "pages" -> Value(<<"4","8","2","1">>)
               [] var = "model" -> Value(TextHP)
               [] var = "status" -> Value(<<"2">>)
               [] OTHER -> NoSuchInstance)
      [] profile = "partial" ->
            (CASE var = "pages" -> Timeout
               [] var = "model" -> Value(TextHP)
               [] var = "status" -> ErrorStatus
               [] OTHER -> NoSuchInstance)
      [] profile = "odd" ->
            (CASE var = "pages" -> Value(<<"n","/","a">>)
               [] var = "model" -> Value(<<" ">>)
               [] var = "status" -> Raised
               [] OTHER -> NoSuchInstance)

SlotAnswer(profile, index, key) ==
    CASE profile = "hung" -> Timeout
      [] profile = "full" /\ index = 1 -> Slot(TextBlackToner, <<"4","5">>, <<"1","0","0">>, key)
      [] profile = "full" /\ index = 3 -> Slot(TextDrum, <<"-","3">>, <<"1","0","0">>, key)
      [] profile = "partial" /\ index = 2 -> Slot(TextBlackToner, <<"-","3">>, <<"1","0","0">>, key)
      [] profile = "partial" /\ index = 5 -> Slot(TextBlackToner2, <<"3","0">>, <<"6","0">>, key)
      [] profile = "odd" /\ index = 1 -> Slot(TextWaste, <<"5">>, <<"1","0">>, key)
      [] profile = "odd" /\ index = 2 ->
            (IF key = "current_level" THEN Timeout
             ELSE Slot(TextBlackToner, <<"5">>, <<"1","0">>, key))
      [] profile = "odd" /\ index = 3 -> Raised
      [] OTHER -> NoSuchInstance

-----------------------------------------------------------------------------
(* monitoring/collector.py: get_printer_metrics_async, one operator per    *)
(* await of the coroutine                                                  *)

\* get_supply_info: the dict of the keys that were answered, None if empty.
\* A key that is missing from the dict holds None here
supply_info(answers) ==
    CHOOSE info \in
        {IF \A key \in SupplyKeys : ~Truthy(supply[key]) THEN None ELSE Some(supply)
         : supply \in {[key \in SupplyKeys |-> snmp_get(answers[key])]}} : TRUE

\* get_supply_info(ip, index) on a device of the profile
get_supply_info(profile, index) ==
    supply_info([key \in SupplyKeys |-> SlotAnswer(profile, index, key)])

\* total_pages = await snmp_get(ip, TOTAL_PAGES) and the lines up to the next await
pages_step(metrics, total_pages) ==
    IF Truthy(total_pages) /\ PyInt(Get(total_pages)).ok
    THEN [metrics EXCEPT !.total_pages = Some(PyInt(Get(total_pages)).val)]
    ELSE metrics

model_step(metrics, model) ==
    IF Truthy(model) THEN [metrics EXCEPT !.model = model] ELSE metrics

\* The device_status lines with a dictionary that is started anew when the
\* status is missed
status_step_reset(metrics, device_status) ==
    IF Truthy(device_status) /\ PyInt(Get(device_status)).ok
    THEN [metrics EXCEPT !.device_status = Some(PyInt(Get(device_status)).val)]
    ELSE NoMetrics

status_step(metrics, device_status) ==
    IF Truthy(device_status) /\ PyInt(Get(device_status)).ok
    THEN [metrics EXCEPT !.device_status = Some(PyInt(Get(device_status)).val)]
    ELSE metrics

TextToner == <<"t","o","n","e","r">>
TextBlack == <<"b","l","a","c","k">>
TextDrumKey == <<"d","r","u","m">>

\* One iteration of for index in range(1, 10)
supply_step(metrics, supply) ==
    IF supply = None THEN metrics
    ELSE CHOOSE after \in
        {IF ~Truthy(current) \/ ~Truthy(max_cap) THEN metrics
         ELSE IF Contains(desc, TextToner) /\ Contains(desc, TextBlack)
         THEN CHOOSE m \in
                {IF decoded[1] # None THEN [metrics EXCEPT !.toner_level_pct = decoded[1]]
                 ELSE IF Truthy(decoded[2]) THEN [metrics EXCEPT !.toner_status = decoded[2]]
                 ELSE metrics
                 : decoded \in {calculate_toner_percentage(Get(current), Get(max_cap))}} : TRUE
         ELSE IF Contains(desc, TextDrumKey)
         THEN CHOOSE m \in
                {IF decoded[1] # None THEN [metrics EXCEPT !.drum_level_pct = decoded[1]]
                 ELSE metrics
                 : decoded \in {calculate_toner_percentage(Get(current), Get(max_cap))}} : TRUE
         ELSE metrics
         : desc \in {IF Get(supply)["description"] = None THEN <<>>
                     ELSE Lower(Get(Get(supply)["description"])) \o <<>>},
           current \in {Get(supply)["current_level"]},
           max_cap \in {Get(supply)["max_capacity"]}} : TRUE

MetricFields ==
    {"total_pages", "model", "device_status", "toner_level_pct", "toner_status",
     "drum_level_pct"}

\* get_printer_metrics_async that returns the dictionary even when every
\* value in it is None
metrics_or_none_always(metrics) == Some(metrics)

\* return metrics if any(v is not None for v in metrics.values()) else None
metrics_or_none(metrics) ==
    IF \E f \in MetricFields : metrics[f] # None THEN Some(metrics) ELSE None

\* get_printer_metrics_async from its first line to its return
RECURSIVE supply_scan(_, _, _)
supply_scan(metrics, profile, index) ==
    IF index > SupplySlots THEN metrics
    ELSE supply_scan(supply_step(metrics, get_supply_info(profile, index)), profile, index + 1)

get_printer_metrics_async(profile) ==
    LET m1 == pages_step(NoMetrics, snmp_get(Answer(profile, "pages")))
        m2 == model_step(m1, snmp_get(Answer(profile, "model")))
        m3 == status_step(m2, snmp_get(Answer(profile, "status")))
    IN metrics_or_none(supply_scan(m3, profile, 1))

-----------------------------------------------------------------------------
(* The state machine *)

Names == {<<"L","o","b","b","y">>, <<"H","a","l","l">>}
Locations == {None}
Models == {None}

\* Metrics dictionaries a caller may hand to save_metrics
Samples ==
    {[NoMetrics EXCEPT !.total_pages = Some(4821), !.toner_level_pct = Some(45)],
     [NoMetrics EXCEPT !.toner_status = Some(TextOK)]}

\* Config as get_storage reads it
Configs ==
    {[MODE |-> "local", retry_attempts |-> MaxRetry, enable_buffer |-> TRUE]}
    \cup {[MODE |-> "cloud", retry_attempts |-> n, enable_buffer |-> b] :
            n \in 0..MaxRetry, b \in BOOLEAN}

\* Config.validate that asks for the URL alone in cloud mode
Config_validate_url_only(cfg, api_url, api_key) ==
    IF cfg.MODE \notin {"local", "cloud"} THEN "ValueError"
    ELSE IF cfg.MODE = "cloud" /\ ~Truthy(api_url) THEN "ValueError"
    ELSE ""

\* Config.validate: the exception it raises, "" when it returns True
Config_validate(cfg, api_url, api_key) ==
    IF cfg.MODE \notin {"local", "cloud"} THEN "ValueError"
    ELSE IF cfg.MODE = "cloud" /\ ~Truthy(api_url) THEN "ValueError"
    ELSE IF cfg.MODE = "cloud" /\ ~Truthy(api_key) THEN "ValueError"
    ELSE ""

\* factory.get_storage: the class it constructs and returns, or the
\* exception that leaves it
storage_factory(cfg, api_url, api_key) ==
    IF Config_validate(cfg, api_url, api_key) # ""
    THEN [backend |-> "none", error |-> Config_validate(cfg, api_url, api_key)]
    ELSE IF cfg.MODE = "local" THEN [backend |-> "LocalStorage", error |-> ""]
    ELSE IF cfg.MODE = "cloud" THEN [backend |-> "CloudStorage", error |-> ""]
    ELSE [backend |-> "none", error |-> "ValueError"]

\* CloudStorage that creates its buffer whatever enable_buffer says
get_storage_buffered(cfg) == Some(EmptyDatabase)

\* get_storage: LocalStorage(database_file), or CloudStorage with
\* self.buffer = LocalStorage() if enable_buffer else None
get_storage(cfg) ==
    IF cfg.MODE = "local" \/ cfg.enable_buffer THEN Some(EmptyDatabase) ELSE None

\* A coroutine monitor_printer(ip, storage) awaiting its first query
\* error: the exception monitor_printer caught, "" for none
NewTask == [pc |-> "pages", index |-> 0, metrics |-> NoMetrics, ret |-> FALSE, error |-> ""]

\* monitor_printer that returns True once a sample was handed to the storage
Return_true(t, ok) == [t EXCEPT !.pc = "done", !.ret = TRUE]

\* monitor_printer returns ok
Return(t, ok) == [t EXCEPT !.pc = "done", !.ret = ok]

\* The threads that share one database file
Threads == 1..NumThreads
NoThread == 0

\* No LocalStorage call on the thread.  pc: the statement the call is at;
\* result: what fetchone() returned; error: the exception its except clause
\* caught, "" for none
IdleFrame ==
    [pc |-> "idle", op |-> "none", ip |-> NoAddr, name |-> <<>>, location |-> None,
     model |-> None, metrics |-> NoMetrics, result |-> None, error |-> "", ret |-> NoRet]

NoStore ==
    /\ thread = [t \in Threads |-> IdleFrame]
    /\ lock = NoThread

\* No calculate_toner_percentage call: out is <<>> until the call has ended
IdleDecode == [current |-> <<>>, max_capacity |-> <<>>, out |-> <<>>]

NoDecode == decode = IdleDecode

\* No get_printer_metrics_async call.  pages: what the device answers for
\* TOTAL_PAGES; slots: what it holds in its first supply slots; pc, index,
\* metrics: the frame of the coroutine; out: <<>> until it has returned
IdleScan ==
    [pages |-> Timeout, slots |-> <<>>, pc |-> "idle", index |-> 0,
     metrics |-> NoMetrics, out |-> <<>>]

NoScan == scan = IdleScan

\* No snmp_get call: out is <<>> until the call has ended
IdleQuery == [answer |-> Timeout, out |-> <<>>]

NoQuery == query = IdleQuery

\* No get_storage call.  api_url, api_key: Config.CLOUD_API_URL and
\* Config.CLOUD_API_KEY, None when the variable is not in the environment;
\* backend: the class of the instance get_storage returned; error: the
\* exception that left it, "" for none
IdleFactory ==
    [api_url |-> None, api_key |-> None, pc |-> "idle", backend |-> "none", error |-> ""]

NoFactory == factory = IdleFactory

\* main() has not been called.  command: sys.argv[1], "once" without one;
\* registered: the addresses the storage lists; cycle: the loop counter;
\* printers: <<>> until storage.get_printers() has returned, then <<its
\* result>>; polled: the devices a pass has queried; error: the exception
\* that left main(), "" for none; code: the exit status of sys.exit, 0 for a
\* return
IdleEntry ==
    [command |-> "once", registered |-> {}, pc |-> "idle", cycle |-> 0, printers |-> <<>>,
     polled |-> {}, error |-> "", code |-> 0]

NoEntry == entry = IdleEntry

\* The cloud API with empty tables and no request served.  printers,
\* metrics, devices: the rows of the tables; now: datetime.utcnow(); served:
\* the ingest requests answered so far; reply: the last answer, its status 0
\* before the first
IdleServer ==
    [printers |-> <<>>, metrics |-> <<>>, devices |-> <<>>, now |-> 0, served |-> 0,
     request |-> [device |-> 0, printer_id |-> NoAddr, timestamp |-> None, metrics |-> NoMetrics],
     reply |-> [status |-> 0, printer_id |-> 0]]

NoServer == server = IdleServer

NoPass ==
    /\ printers = <<>>
    /\ device = <<>>
    /\ task = <<>>
    /\ loop = NoAddr
    /\ status = <<>>

Init ==
    /\ config \in Configs
    /\ local = get_storage(config)
    /\ cloud = [printers |-> <<>>, rows |-> <<>>]
    /\ call = IdleCall
    /\ ncalls = 0
    /\ returned = [o \in Callers |-> None]
    /\ known = {}
    /\ NoPass
    /\ NoStore
    /\ NoDecode
    /\ NoScan
    /\ clock = 0
    /\ NoQuery
    /\ NoFactory
    /\ NoEntry
    /\ NoServer

\* The call r.call has run up to its next blocking point, or to its return
Advance(r) ==
    /\ call' = r.call
    /\ local' = r.local
    /\ returned' = IF r.call.pc = "returned"
                   THEN [returned EXCEPT ![r.call.owner] = Some(r.call)]
                   ELSE returned
    /\ known' = IF /\ r.call.pc = "returned"
                   /\ r.call.op = "get_or_create_printer"
                   /\ r.call.ret.ip = r.call.ip
                THEN known \cup {r.call.ip}
                ELSE known

\* The client calls c on the Storage Port
Client(c) ==
    /\ call.pc \in {"idle", "returned", "raised"}
    /\ ncalls < MaxCalls
    /\ ncalls' = ncalls + 1
    /\ Advance(Storage_call(c, local, config))
    /\ UNCHANGED <<config, cloud>>
    /\ UNCHANGED passVars
    /\ UNCHANGED auxVars
    /\ UNCHANGED <<clock, query>>
    /\ UNCHANGED moreVars

ClientSave ==
    \E ip \in Addrs, m \in Samples :
        Client([IdleCall EXCEPT !.op = "save_metrics", !.ip = ip, !.metrics = m,
                                !.timestamp = Some(clock)])

ClientRegister ==
    \E ip \in Addrs, n \in Names, l \in Locations, m \in Models :
        Client([IdleCall EXCEPT !.op = "get_or_create_printer", !.ip = ip, !.name = n,
                                !.location = l, !.model = m])

ClientList == Client([IdleCall EXCEPT !.op = "get_printers"])

ClientGet == \E ip \in Addrs : Client([IdleCall EXCEPT !.op = "get_printer_by_ip", !.ip = ip])

ClientHealth == Client([IdleCall EXCEPT !.op = "health_check"])

\* The thread goes on after the call: a task that called save_metrics returns
\* its result (False from its except Exception clause) and gives the event
\* loop back
Resume(r) ==
    IF r.call.pc \in {"returned", "raised"} /\ call.owner # NoAddr
    THEN /\ task' = [task EXCEPT ![call.owner] =
                        Return(@, r.call.pc = "returned" /\ r.call.ret.ok)]
         /\ loop' = NoAddr
    ELSE UNCHANGED <<task, loop>>

\* The session call of the running _make_request ends
RequestReturns ==
    /\ call.pc = "request"
    /\ \E o \in Outcomes :
        /\ (o = "ok" /\ call.op = "get_printer_by_ip") => SelectPrinter(cloud, call.ip) # None
        /\ o = "scalar" => call.op = "get_printers"
        /\ o = "null" => call.op = "health_check"
        /\ LET r == make_request_attempt(call, local, cloud, config, o)
           IN Advance(r) /\ Resume(r)
        /\ cloud' = IF Answered2xx(o) THEN Sink_accept(cloud, call) ELSE cloud
    /\ UNCHANGED <<config, ncalls, printers, device, status>>
    /\ UNCHANGED auxVars
    /\ UNCHANGED <<clock, query>>
    /\ UNCHANGED moreVars

\* time.sleep(self.retry_delay) ends and the for loop goes to its next iteration
SleepReturns ==
    /\ call.pc = "sleep"
    /\ call' = [call EXCEPT !.pc = "request", !.sleeps = @ + 1]
    /\ clock' = clock + RetryDelay
    /\ UNCHANGED query
    /\ UNCHANGED moreVars
    /\ UNCHANGED <<config, local, cloud, ncalls, returned, known>>
    /\ UNCHANGED passVars
    /\ UNCHANGED auxVars

Next ==
    \/ ClientSave
    \/ ClientRegister
    \/ ClientList
    \/ ClientGet
    \/ ClientHealth
    \/ RequestReturns
    \/ SleepReturns

Spec == Init /\ [][Next]_vars

-----------------------------------------------------------------------------
(* SpecPass: monitor_multiple_printers(printers, storage) on the event loop *)

\* The local database with the printers of R registered, lowest address first
Registered(R) ==
    [EmptyDatabase EXCEPT !.printers =
        [i \in 1..Cardinality(R) |->
            LET ip == CHOOSE a \in R : Cardinality({b \in R : b < a}) = i - 1
            IN [id |-> i, ip |-> ip, name |-> <<"L","o","b","b","y">>,
                location |-> None, model |-> None]]]

PassConfigs ==
    {[MODE |-> "local", retry_attempts |-> MaxRetry, enable_buffer |-> TRUE]}
    \cup {[MODE |-> "cloud", retry_attempts |-> MaxRetry, enable_buffer |-> b] : b \in BOOLEAN}

\* asyncio.gather has started one task per printer and each has run to its
\* first await
InitPass ==
    /\ config \in PassConfigs
    /\ \E R \in SUBSET Addrs :
          local = IF get_storage(config) = None THEN None ELSE Some(Registered(R))
    /\ cloud = [printers |-> <<>>, rows |-> <<>>]
    /\ call = IdleCall
    /\ ncalls = 0
    /\ returned = [o \in Callers |-> None]
    /\ known = {}
    /\ printers = [i \in 1..NumDevices |-> i]
    /\ device \in [Addrs -> Profiles]
    /\ task = [d \in Addrs |-> NewTask]
    /\ loop = NoAddr
    /\ status = <<>>
    /\ NoStore
    /\ NoDecode
    /\ NoScan
    /\ clock = 0
    /\ NoQuery
    /\ NoFactory
    /\ NoEntry
    /\ NoServer

\* An event loop that resumes a task only on an answer: a query to a device
\* that does not answer has no timeout
Runs_untimed(d, pc) ==
    /\ loop = NoAddr
    /\ task[d].pc = pc
    /\ device[d] # "hung"

\* The event loop resumes task d, whose awaited query has been answered or
\* has timed out
Runs(d, pc) ==
    /\ loop = NoAddr
    /\ task[d].pc = pc

PagesReturns(d) ==
    /\ Runs(d, "pages")
    /\ \E total_pages \in {snmp_get(Answer(device[d], "pages"))} :
          task' = [task EXCEPT ![d].pc = "model", ![d].metrics = pages_step(@, total_pages)]
    /\ UNCHANGED <<printers, device, loop, status>>
    /\ UNCHANGED storeVars
    /\ UNCHANGED auxVars
    /\ UNCHANGED <<clock, query>>
    /\ UNCHANGED moreVars

ModelReturns(d) ==
    /\ Runs(d, "model")
    /\ \E model \in {snmp_get(Answer(device[d], "model"))} :
          task' = [task EXCEPT ![d].pc = "status", ![d].metrics = model_step(@, model)]
    /\ UNCHANGED <<printers, device, loop, status>>
    /\ UNCHANGED storeVars
    /\ UNCHANGED auxVars
    /\ UNCHANGED <<clock, query>>
    /\ UNCHANGED moreVars

StatusReturns(d) ==
    /\ Runs(d, "status")
    /\ \E device_status \in {snmp_get(Answer(device[d], "status"))} :
          task' = [task EXCEPT ![d].pc = "supply", ![d].index = 1,
                               ![d].metrics = status_step(@, device_status)]
    /\ UNCHANGED <<printers, device, loop, status>>
    /\ UNCHANGED storeVars
    /\ UNCHANGED auxVars
    /\ UNCHANGED <<clock, query>>
    /\ UNCHANGED moreVars

\* get_supply_info(ip, index) returns, and another slot is left to query
SupplyReturns(d) ==
    /\ Runs(d, "supply")
    /\ task[d].index < SupplySlots
    /\ \E supply \in {get_supply_info(device[d], task[d].index)} :
          task' = [task EXCEPT ![d].index = @ + 1, ![d].metrics = supply_step(@, supply)]
    /\ UNCHANGED <<printers, device, loop, status>>
    /\ UNCHANGED storeVars
    /\ UNCHANGED auxVars
    /\ UNCHANGED <<clock, query>>
    /\ UNCHANGED moreVars

\* get_supply_info returns for the last slot: get_printer_metrics_async
\* returns, and monitor_printer runs on to storage.save_metrics, which does
\* not await: the task keeps the thread until the call has returned
LastSupplyReturns(d) ==
    /\ Runs(d, "supply")
    /\ task[d].index = SupplySlots
    /\ \E m \in {supply_step(task[d].metrics, supply) :
                    supply \in {get_supply_info(device[d], task[d].index)}} :
         IF metrics_or_none(m) = None
         THEN /\ task' = [task EXCEPT ![d] = Return([@ EXCEPT !.metrics = m], FALSE)]
              /\ UNCHANGED <<call, local, returned, known, loop>>
         ELSE \E r \in {Storage_call([IdleCall EXCEPT !.op = "save_metrics", !.owner = d,
                                                      !.ip = d, !.metrics = m,
                                                      !.timestamp = Some(clock)],
                                      local, config)} :
                /\ Advance(r)
                /\ IF r.call.pc = "returned"
                   THEN /\ task' = [task EXCEPT ![d] = Return([@ EXCEPT !.metrics = m], r.call.ret.ok)]
                        /\ loop' = NoAddr
                   ELSE /\ task' = [task EXCEPT ![d].pc = "save", ![d].metrics = m]
                        /\ loop' = d
    /\ UNCHANGED <<config, cloud, ncalls, printers, device, status>>
    /\ UNCHANGED auxVars
    /\ UNCHANGED <<clock, query>>
    /\ UNCHANGED moreVars

\* An exception leaves get_printer_metrics_async while a slot is decoded (the
\* float division of calculate_toner_percentage raises OverflowError for a
\* level too large for a double, which its except clause does not name):
\* monitor_printer's except Exception returns False
MonitorFault(d) ==
    /\ Runs(d, "supply")
    /\ task' = [task EXCEPT ![d] = Return([@ EXCEPT !.error = "OverflowError"], FALSE)]
    /\ UNCHANGED <<printers, device, loop, status>>
    /\ UNCHANGED storeVars
    /\ UNCHANGED auxVars
    /\ UNCHANGED <<clock, query>>
    /\ UNCHANGED moreVars

\* monitor_multiple_printers that pairs the addresses with the results in
\* reverse order
GatherReturns_reversed ==
    /\ status = <<>>
    /\ printers # <<>>
    /\ \A d \in Addrs : task[d].pc = "done"
    /\ LET results == [i \in 1..Len(printers) |-> task[printers[Len(printers) + 1 - i]].ret]
       IN status' = [ip \in {printers[i] : i \in 1..Len(printers)} |->
                        results[CHOOSE i \in 1..Len(printers) :
                                    printers[i] = ip /\ \A j \in (i + 1)..Len(printers) : printers[j] # ip]]
    /\ UNCHANGED <<printers, device, task, loop>>
    /\ UNCHANGED storeVars
    /\ UNCHANGED auxVars
    /\ UNCHANGED <<clock, query>>
    /\ UNCHANGED moreVars

\* results = await asyncio.gather(*tasks), mapped back to the addresses
GatherReturns ==
    /\ status = <<>>
    /\ printers # <<>>
    /\ \A d \in Addrs : task[d].pc = "done"
    /\ LET results == [i \in 1..Len(printers) |-> task[printers[i]].ret]
       IN status' = [ip \in {printers[i] : i \in 1..Len(printers)} |->
                        results[CHOOSE i \in 1..Len(printers) :
                                    printers[i] = ip /\ \A j \in (i + 1)..Len(printers) : printers[j] # ip]]
    /\ UNCHANGED <<printers, device, task, loop>>
    /\ UNCHANGED storeVars
    /\ UNCHANGED auxVars
    /\ UNCHANGED <<clock, query>>
    /\ UNCHANGED moreVars

NextPass ==
    \/ \E d \in Addrs : PagesReturns(d)
    \/ \E d \in Addrs : ModelReturns(d)
    \/ \E d \in Addrs : StatusReturns(d)
    \/ \E d \in Addrs : SupplyReturns(d)
    \/ \E d \in Addrs : LastSupplyReturns(d)
    \/ \E d \in Addrs : MonitorFault(d)
    \/ RequestReturns
    \/ SleepReturns
    \/ GatherReturns

SpecPass == InitPass /\ [][NextPass]_vars

\* The pass under the scheduling asyncio and the transports give: a ready task
\* is resumed, a query is answered or times out (SNMP_TIMEOUT), a session call
\* returns or times out (timeout=10), and time.sleep returns
FairSpecPass == InitPass /\ [][NextPass]_vars /\ WF_vars(NextPass)

-----------------------------------------------------------------------------
(* SpecStore: LocalStorage calls of several threads on one database file,   *)
(* one statement a step.  local is the committed content of the file.       *)

TextLab == <<"L","a","b">>

\* The name, location and model a caller registers a printer with
Registrations ==
    {<<<<"L","o","b","b","y">>, None, None>>,
     <<<<"H","a","l","l">>, None, None>>,
     <<<<"L","o","b","b","y">>, Some(TextLab), Some(TextHP)>>}

InitStore ==
    /\ config = [MODE |-> "local", retry_attempts |-> MaxRetry, enable_buffer |-> TRUE]
    /\ local = get_storage(config)
    /\ cloud = [printers |-> <<>>, rows |-> <<>>]
    /\ call = IdleCall
    /\ ncalls = 0
    /\ returned = [o \in Callers |-> None]
    /\ known = {}
    /\ NoPass
    /\ NoStore
    /\ NoDecode
    /\ NoScan
    /\ clock = 0
    /\ NoQuery
    /\ NoFactory
    /\ NoEntry
    /\ NoServer

\* Thread t calls an operation: the try block is entered and
\* sqlite3.connect has returned
Begin(t, f) ==
    /\ thread[t].pc \in {"idle", "returned"}
    /\ ncalls < MaxOps
    /\ ncalls' = ncalls + 1
    /\ thread' = [thread EXCEPT ![t] = f]
    /\ UNCHANGED <<config, local, cloud, call, returned, known, lock, decode>>
    /\ UNCHANGED scan
    /\ UNCHANGED <<clock, query>>
    /\ UNCHANGED moreVars
    /\ UNCHANGED passVars

BeginRegister(t) ==
    \E ip \in Addrs, r \in Registrations :
        Begin(t, [IdleFrame EXCEPT !.pc = "select", !.op = "get_or_create_printer", !.ip = ip,
                                   !.name = r[1], !.location = r[2], !.model = r[3]])

BeginSave(t) ==
    \E ip \in Addrs, m \in Samples :
        Begin(t, [IdleFrame EXCEPT !.pc = "select", !.op = "save_metrics", !.ip = ip,
                                   !.metrics = m])

\* except Exception as e: return False (save_metrics), return None
\* (get_or_create_printer); the connection goes with the frame
Caught(f, e) == [f EXCEPT !.pc = "returned", !.error = e, !.ret = NoRet]

\* cursor.execute('SELECT ... FROM printers WHERE ip = ?') and fetchone():
\* get_or_create_printer returns ip for a printer it finds, save_metrics
\* returns False for one it does not find, and otherwise the call goes on to
\* its INSERT
Select(t) ==
    /\ thread[t].pc = "select"
    /\ LET f == thread[t]
           result == SelectPrinter(Get(local), f.ip)
           found == Local_get_or_create_printer(Get(local), f.ip, f.name, f.location, f.model)
       IN IF f.op = "get_or_create_printer" /\ result # None
          THEN /\ thread' = [thread EXCEPT ![t] = [f EXCEPT !.pc = "returned", !.result = result,
                                                            !.ret.ip = found.ret]]
               /\ local' = Some(found.db)
          ELSE IF f.op = "save_metrics" /\ result = None
          THEN /\ thread' = [thread EXCEPT ![t] = [f EXCEPT !.pc = "returned", !.ret.ok = FALSE]]
               /\ local' = local
          ELSE /\ thread' = [thread EXCEPT ![t] = [f EXCEPT !.pc = "insert", !.result = result]]
               /\ local' = local
    /\ UNCHANGED <<config, cloud, call, ncalls, returned, known, lock, decode>>
    /\ UNCHANGED scan
    /\ UNCHANGED <<clock, query>>
    /\ UNCHANGED moreVars
    /\ UNCHANGED passVars

\* cursor.execute('INSERT ...'): the connection opens a transaction and takes
\* the write lock of the file, which no other connection holds; an INSERT
\* INTO printers of an ip the table holds raises IntegrityError
Insert(t) ==
    /\ thread[t].pc = "insert"
    /\ lock = NoThread
    /\ IF thread[t].op = "get_or_create_printer" /\ UniqueViolated(Get(local), thread[t].ip)
       THEN /\ thread' = [thread EXCEPT ![t] = Caught(@, "IntegrityError")]
            /\ lock' = lock
       ELSE /\ thread' = [thread EXCEPT ![t].pc = "commit"]
            /\ lock' = t
    /\ UNCHANGED <<config, local, cloud, call, ncalls, returned, known, decode>>
    /\ UNCHANGED scan
    /\ UNCHANGED <<clock, query>>
    /\ UNCHANGED moreVars
    /\ UNCHANGED passVars

\* The INSERT has waited for the write lock for the timeout of the
\* connection (5 seconds): OperationalError, database is locked
Busy(t) ==
    /\ thread[t].pc = "insert"
    /\ lock # NoThread
    /\ thread' = [thread EXCEPT ![t] = Caught(@, "OperationalError")]
    /\ UNCHANGED <<config, local, cloud, call, ncalls, returned, known, lock, decode>>
    /\ UNCHANGED scan
    /\ UNCHANGED <<clock, query>>
    /\ UNCHANGED moreVars
    /\ UNCHANGED passVars

\* conn.commit(), conn.close() and the return of the operation
Commit(t) ==
    /\ thread[t].pc = "commit"
    /\ LET f == thread[t]
       IN IF f.op = "get_or_create_printer"
          THEN /\ local' = Some(InsertPrinter(Get(local), f.ip, f.name, f.location, f.model))
               /\ thread' = [thread EXCEPT ![t] = [f EXCEPT !.pc = "returned", !.ret.ip = f.ip]]
          ELSE /\ local' = Some(InsertMetrics(Get(local), Get(f.result).id, f.metrics))
               /\ thread' = [thread EXCEPT ![t] = [f EXCEPT !.pc = "returned", !.ret.ok = TRUE]]
    /\ lock' = NoThread
    /\ UNCHANGED <<config, cloud, call, ncalls, returned, known, decode>>
    /\ UNCHANGED scan
    /\ UNCHANGED <<clock, query>>
    /\ UNCHANGED moreVars
    /\ UNCHANGED passVars

\* The statement the call is at raises a sqlite3 error of the storage (the
\* file cannot be read or written, the disk is full); a transaction the
\* connection has open is rolled back
Fault(t) ==
    /\ thread[t].pc \in {"select", "insert", "commit"}
    /\ thread' = [thread EXCEPT ![t] = Caught(@, "DatabaseError")]
    /\ lock' = IF lock = t THEN NoThread ELSE lock
    /\ UNCHANGED <<config, local, cloud, call, ncalls, returned, known, decode>>
    /\ UNCHANGED scan
    /\ UNCHANGED <<clock, query>>
    /\ UNCHANGED moreVars
    /\ UNCHANGED passVars

NextStore ==
    \/ \E t \in Threads : BeginRegister(t)
    \/ \E t \in Threads : BeginSave(t)
    \/ \E t \in Threads : Select(t)
    \/ \E t \in Threads : Insert(t)
    \/ \E t \in Threads : Busy(t)
    \/ \E t \in Threads : Commit(t)
    \/ \E t \in Threads : Fault(t)

SpecStore == InitStore /\ [][NextStore]_vars

-----------------------------------------------------------------------------
(* SpecDecode: one call of calculate_toner_percentage on a pair of texts    *)

\* 10^309 as a numeral
TextHuge == [i \in 1..(MaxDoubleDigits + 1) |-> IF i = 1 THEN "1" ELSE "0"]

\* What a device can answer for prtMarkerSuppliesLevel: the special values,
\* levels up to MaxLevel, and texts that are not plain numerals
Levels ==
    {IntText(n) : n \in -5..MaxLevel}
    \cup {<<>>, TextOK, <<" ", "7", " ">>, <<"+", "5">>, <<"1", ".", "5">>, TextHuge}

\* What a device can answer for prtMarkerSuppliesMaxCapacity
Capacities == {IntText(n) : n \in -3..MaxCapacity} \cup {TextOK}

InitDecode ==
    /\ config = [MODE |-> "local", retry_attempts |-> MaxRetry, enable_buffer |-> TRUE]
    /\ local = get_storage(config)
    /\ cloud = [printers |-> <<>>, rows |-> <<>>]
    /\ call = IdleCall
    /\ ncalls = 0
    /\ returned = [o \in Callers |-> None]
    /\ known = {}
    /\ NoPass
    /\ NoStore
    /\ decode \in {[IdleDecode EXCEPT !.current = c, !.max_capacity = m] :
                        c \in Levels, m \in Capacities}
    /\ NoScan
    /\ clock = 0
    /\ NoQuery
    /\ NoFactory
    /\ NoEntry
    /\ NoServer

\* The call runs to its end
Decode ==
    /\ decode.out = <<>>
    /\ decode' = [decode EXCEPT
                    !.out = <<calculate_toner_percentage(decode.current, decode.max_capacity)>>]
    /\ UNCHANGED <<config, local, cloud, call, ncalls, returned, known, thread, lock>>
    /\ UNCHANGED scan
    /\ UNCHANGED <<clock, query>>
    /\ UNCHANGED moreVars
    /\ UNCHANGED passVars

NextDecode == Decode

SpecDecode == InitDecode /\ [][NextDecode]_vars

-----------------------------------------------------------------------------
(* SpecQuery: one call of snmp_get on one answer of the transport           *)

TextNoSuchObject ==
    TextNoSuch \o <<" ","O","b","j","e","c","t"," ","c","u","r","r","e","n","t","l","y"," ",
                    "e","x","i","s","t","s"," ","a","t"," ","t","h","i","s"," ","O","I","D">>

\* str(varBinds[0][1]): numerals, alone and with whitespace around them,
\* names, blank texts and texts that hold the marker "No Such" or nearly do
ValueTexts ==
    Levels
    \cup {<<" ">> \o IntText(n) \o <<"\n">> : n \in 0..MaxLevel}
    \cup {TextHP, TextBlackToner, <<" ">>, <<"\t", " ", "\n">>, <<" ", "H", "P", " ">>,
          TextNoSuch, TextNoSuchObject, NoSuchInstance.text,
          <<"x">> \o TextNoSuch \o <<"y">>, Lower(TextNoSuch), <<"N", "o", " ">>}

Answers == {Timeout, ErrorStatus, Raised} \cup {Value(t) : t \in ValueTexts}

InitQuery ==
    /\ config = [MODE |-> "local", retry_attempts |-> MaxRetry, enable_buffer |-> TRUE]
    /\ local = get_storage(config)
    /\ cloud = [printers |-> <<>>, rows |-> <<>>]
    /\ call = IdleCall
    /\ ncalls = 0
    /\ returned = [o \in Callers |-> None]
    /\ known = {}
    /\ NoPass
    /\ NoStore
    /\ NoDecode
    /\ NoScan
    /\ clock = 0
    /\ query \in {[IdleQuery EXCEPT !.answer = a] : a \in Answers}
    /\ NoFactory
    /\ NoEntry
    /\ NoServer

\* getCmd ends and the call runs to its return
Query ==
    /\ query.out = <<>>
    /\ query' = [query EXCEPT !.out = <<snmp_get(query.answer)>>]
    /\ UNCHANGED <<thread, lock, decode, scan, clock>>
    /\ UNCHANGED moreVars
    /\ UNCHANGED storeVars
    /\ UNCHANGED passVars

NextQuery == Query

SpecQuery == InitQuery /\ [][NextQuery]_vars

-----------------------------------------------------------------------------
(* SpecScan: one call of get_printer_metrics_async on one device, one await *)
(* a step.  The device holds supplies in its first ScanSlots slots.         *)

TextTonerBLK == <<"T","O","N","E","R"," ","B","L","K">>
TextCyanToner == <<"C","y","a","n"," ","T","o","n","e","r">>
TextBlackDrum == <<"B","l","a","c","k"," ","D","r","u","m">>

\* What prtMarkerSuppliesDescription can read
Descriptions == {TextBlackToner, TextTonerBLK, TextCyanToner, TextDrum, TextBlackDrum}

\* A supply slot of a device: one that does not exist, or a description with
\* a level and a capacity, each of which the device can leave empty
EmptySlot == [present |-> FALSE, desc |-> <<>>, current |-> <<>>, max |-> <<>>]

SupplyKinds ==
    {EmptySlot}
    \cup {[present |-> TRUE, desc |-> d, current |-> l[1], max |-> l[2]] :
            d \in Descriptions,
            l \in {<<<<"4","5">>, <<"1","0","0">>>>, <<<<"-","3">>, <<"1","0","0">>>>}}
    \cup {[present |-> TRUE, desc |-> TextBlackToner, current |-> <<"3","0">>, max |-> <<"6","0">>]}
    \cup {[present |-> TRUE, desc |-> <<>>, current |-> <<"4","5">>, max |-> <<"1","0","0">>],
          [present |-> TRUE, desc |-> TextBlackToner, current |-> <<>>, max |-> <<"1","0","0">>],
          [present |-> TRUE, desc |-> TextBlackToner, current |-> <<"4","5">>, max |-> <<>>]}

\* What the device answers for one key of the slot index
ScanAnswer(slots, index, key) ==
    IF index <= Len(slots) /\ slots[index].present
    THEN Slot(slots[index].desc, slots[index].current, slots[index].max, key)
    ELSE NoSuchInstance

InitScan ==
    /\ config = [MODE |-> "local", retry_attempts |-> MaxRetry, enable_buffer |-> TRUE]
    /\ local = get_storage(config)
    /\ cloud = [printers |-> <<>>, rows |-> <<>>]
    /\ call = IdleCall
    /\ ncalls = 0
    /\ returned = [o \in Callers |-> None]
    /\ known = {}
    /\ NoPass
    /\ NoStore
    /\ NoDecode
    /\ scan \in {[IdleScan EXCEPT !.pages = p, !.slots = s, !.pc = "pages"] :
                    p \in {Value(<<"4","8","2","1">>), Timeout},
                    s \in [1..ScanSlots -> SupplyKinds]}
    /\ clock = 0
    /\ NoQuery
    /\ NoFactory
    /\ NoEntry
    /\ NoServer

\* The coroutine is resumed with the answer it awaited
ScanStep(f) ==
    /\ scan' = f
    /\ UNCHANGED <<thread, lock, decode, clock, query>>
    /\ UNCHANGED moreVars
    /\ UNCHANGED storeVars
    /\ UNCHANGED passVars

ScanPages ==
    /\ scan.pc = "pages"
    /\ \E total_pages \in {snmp_get(scan.pages)} :
          ScanStep([scan EXCEPT !.pc = "model", !.metrics = pages_step(@, total_pages)])

ScanModel ==
    /\ scan.pc = "model"
    /\ \E model \in {snmp_get(Value(TextHP))} :
          ScanStep([scan EXCEPT !.pc = "status", !.metrics = model_step(@, model)])

ScanStatus ==
    /\ scan.pc = "status"
    /\ \E device_status \in {snmp_get(Value(<<"2">>))} :
          ScanStep([scan EXCEPT !.pc = "supply", !.index = 1,
                                !.metrics = status_step(@, device_status)])

\* A for loop that ends at the first slot for which get_supply_info
\* returns None (break in the place of continue)
ScanSupply_break ==
    /\ scan.pc = "supply"
    /\ \E supply \in {supply_info([key \in SupplyKeys |->
                                        ScanAnswer(scan.slots, scan.index, key)])} :
          IF scan.index < SupplySlots /\ supply # None
          THEN ScanStep([scan EXCEPT !.index = @ + 1, !.metrics = supply_step(@, supply)])
          ELSE \E m \in {supply_step(scan.metrics, supply)} :
                  ScanStep([scan EXCEPT !.pc = "done", !.metrics = m, !.out = <<metrics_or_none(m)>>])

\* get_supply_info(ip, index) returns: one iteration of the for loop, and
\* after the last one the return of the coroutine
ScanSupply ==
    /\ scan.pc = "supply"
    /\ \E m \in {supply_step(scan.metrics, supply) :
                    supply \in {supply_info([key \in SupplyKeys |->
                                                ScanAnswer(scan.slots, scan.index, key)])}} :
          IF scan.index < SupplySlots
          THEN ScanStep([scan EXCEPT !.index = @ + 1, !.metrics = m])
          ELSE ScanStep([scan EXCEPT !.pc = "done", !.metrics = m, !.out = <<metrics_or_none(m)>>])

NextScan ==
    \/ ScanPages
    \/ ScanModel
    \/ ScanStatus
    \/ ScanSupply

SpecScan == InitScan /\ [][NextScan]_vars

-----------------------------------------------------------------------------
(* SpecFactory: one call of get_storage under one environment, and a       *)
(* health_check on the backend it returned (test_config.py)                *)

TextUrl == <<"h","t","t","p","s",":","/","/","a","p","i","/">>
TextKey == <<"p","m","_","k","e","y">>

\* MONITOR_MODE as the environment can set it
Modes == {"local", "cloud", "hybrid", "Cloud", ""}

\* CLOUD_API_URL and CLOUD_API_KEY: not set, set to "", set
ApiUrls == {None, Some(<<>>), Some(TextUrl)}
ApiKeys == {None, Some(<<>>), Some(TextKey)}

InitFactory ==
    /\ config \in {[MODE |-> m, retry_attempts |-> n, enable_buffer |-> b] :
                        m \in Modes, n \in 0..(MaxRetry + 1), b \in BOOLEAN}
    /\ local = None
    /\ cloud = [printers |-> <<>>, rows |-> <<>>]
    /\ call = IdleCall
    /\ ncalls = 0
    /\ returned = [o \in Callers |-> None]
    /\ known = {}
    /\ NoPass
    /\ NoStore
    /\ NoDecode
    /\ NoScan
    /\ clock = 0
    /\ NoQuery
    /\ factory \in {[IdleFactory EXCEPT !.api_url = u, !.api_key = k, !.pc = "start"] :
                        u \in ApiUrls, k \in ApiKeys}
    /\ NoEntry
    /\ NoServer

\* storage = get_storage()
GetStorage ==
    /\ factory.pc = "start"
    /\ \E r \in {storage_factory(config, factory.api_url, factory.api_key)} :
        /\ factory' = [factory EXCEPT !.pc = IF r.error = "" THEN "returned" ELSE "raised",
                                      !.backend = r.backend, !.error = r.error]
        /\ local' = IF r.error = "" THEN get_storage(config) ELSE local
    /\ UNCHANGED <<config, cloud, call, ncalls, returned, known>>
    /\ UNCHANGED passVars
    /\ UNCHANGED auxVars
    /\ UNCHANGED <<clock, query, entry, server>>

\* storage.health_check() is called
FactoryHealth ==
    /\ factory.pc = "returned"
    /\ factory' = [factory EXCEPT !.pc = "health"]
    /\ ncalls' = ncalls + 1
    /\ Advance(Storage_call([IdleCall EXCEPT !.op = "health_check"], local, config))
    /\ UNCHANGED <<config, cloud>>
    /\ UNCHANGED passVars
    /\ UNCHANGED auxVars
    /\ UNCHANGED <<clock, query, entry, server>>

NextFactory ==
    \/ GetStorage
    \/ FactoryHealth
    \/ RequestReturns
    \/ SleepReturns

SpecFactory == InitFactory /\ [][NextFactory]_vars

-----------------------------------------------------------------------------
(* SpecMain: one run of main.py, python main.py [once|loop], on a storage   *)
(* that lists the registered printers                                      *)

Commands == {"once", "loop", "status"}

InitMain ==
    /\ config \in Configs
    /\ call = IdleCall
    /\ ncalls = 0
    /\ returned = [o \in Callers |-> None]
    /\ known = {}
    /\ NoPass
    /\ NoStore
    /\ NoDecode
    /\ NoScan
    /\ clock = 0
    /\ NoQuery
    /\ NoFactory
    /\ NoServer
    /\ \E R \in SUBSET Addrs :
          /\ local = IF get_storage(config) = None THEN None ELSE Some(Registered(R))
          /\ cloud = [printers |-> Registered(R).printers, rows |-> <<>>]
          /\ entry \in {[IdleEntry EXCEPT !.command = c, !.registered = R, !.pc = "get_storage"] :
                            c \in Commands}

\* main() goes on by one statement
MainStep(e) ==
    /\ entry' = e
    /\ UNCHANGED storeVars
    /\ UNCHANGED passVars
    /\ UNCHANGED auxVars
    /\ UNCHANGED <<clock, query, factory, server>>

\* print_banner(); storage = get_storage(); and the branch on the command:
\* sys.exit(1) for a command that is neither once nor loop
MainCommand ==
    /\ entry.pc = "get_storage"
    /\ MainStep(CASE entry.command = "once" -> [entry EXCEPT !.pc = "scan"]
                  [] entry.command = "loop" -> [entry EXCEPT !.pc = "scan", !.cycle = 1]
                  [] OTHER -> [entry EXCEPT !.pc = "exited", !.code = 1])

\* scan_remote_subnets_if_needed(storage), which once mode calls first and
\* loop mode calls in cycle 1 (cycle % 10 == 1): its first statement reads
\* config.MONITOR_MODE, an attribute Config does not have (the class has
\* MODE), before its try block is entered; AttributeError leaves main()
MainScan ==
    /\ entry.pc = "scan"
    /\ MainStep([entry EXCEPT !.pc = "raised", !.error = "AttributeError"])

NextMain ==
    \/ MainCommand
    \/ MainScan

SpecMain == InitMain /\ [][NextMain]_vars

-----------------------------------------------------------------------------
(* server routes/metrics.py: ingest_metrics, and SpecSink, the cloud API    *)
(* serving ingest requests of authenticated proxy devices one by one        *)

Proxies == 1..NumProxies

\* db.query(Printer).filter(Printer.ip == ..., Printer.device_id == ...)
\* .first(): the index of the row, 0 for None
FirstPrinter(db, ip, device_id) ==
    IF \E i \in 1..Len(db.printers) :
            db.printers[i].ip = ip /\ db.printers[i].device_id = device_id
    THEN CHOOSE i \in 1..Len(db.printers) :
            /\ db.printers[i].ip = ip /\ db.printers[i].device_id = device_id
            /\ \A j \in 1..(i - 1) :
                    ~(db.printers[j].ip = ip /\ db.printers[j].device_id = device_id)
    ELSE 0

\* ingest_metrics that looks the printer up by its ip alone
ingest_metrics_any_device(db, req) ==
    LET first == IF \E i \in 1..Len(db.printers) : db.printers[i].ip = req.printer_id
                 THEN CHOOSE i \in 1..Len(db.printers) :
                        /\ db.printers[i].ip = req.printer_id
                        /\ \A j \in 1..(i - 1) : db.printers[j].ip # req.printer_id
                 ELSE 0
    IN IF first = 0
       THEN [db EXCEPT !.reply = [status |-> 404, printer_id |-> 0]]
       ELSE [db EXCEPT
                !.metrics = Append(@, [printer_id |-> db.printers[first].id,
                                       timestamp |-> IF req.timestamp # None
                                                     THEN Get(req.timestamp) ELSE db.now,
                                       metrics |-> req.metrics]),
                !.printers[first].last_seen_at = db.now,
                !.printers[first].connection_status = "connected",
                !.printers[first].model = IF Truthy(req.metrics.model)
                                          THEN req.metrics.model ELSE @,
                !.devices[req.device].last_seen_at = db.now,
                !.reply = [status |-> 201, printer_id |-> db.printers[first].id]]

\* ingest_metrics(metrics_data, db, current_device) on the tables db at the
\* time db.now: HTTPException 404 before anything is written, or one
\* PrinterMetrics row, the printer and the device updated, one commit, 201
ingest_metrics(db, req) ==
    LET printer == FirstPrinter(db, req.printer_id, req.device)
    IN IF printer = 0
       THEN [db EXCEPT !.reply = [status |-> 404, printer_id |-> 0]]
       ELSE [db EXCEPT
                !.metrics = Append(@, [printer_id |-> db.printers[printer].id,
                                       timestamp |-> IF req.timestamp # None
                                                     THEN Get(req.timestamp) ELSE db.now,
                                       metrics |-> req.metrics]),
                !.printers[printer].last_seen_at = db.now,
                !.printers[printer].connection_status = "connected",
                !.printers[printer].model = IF Truthy(req.metrics.model)
                                            THEN req.metrics.model ELSE @,
                !.devices[req.device].last_seen_at = db.now,
                !.reply = [status |-> 201, printer_id |-> db.printers[printer].id]]

\* The printers table with the pairs of P registered, ordered by address
\* and device
PrinterTable(P) ==
    LET rank(p) == Cardinality({q \in P : q[1] < p[1] \/ (q[1] = p[1] /\ q[2] < p[2])}) + 1
    IN [i \in 1..Cardinality(P) |->
            LET p == CHOOSE q \in P : rank(q) = i
            IN [id |-> i, ip |-> p[1], device_id |-> p[2], model |-> Some(TextHP),
                connection_status |-> "unknown", last_seen_at |-> 0]]

\* The bodies of the requests: a sample with or without a model (an empty
\* one among them), with or without a timestamp
IngestRequests ==
    {[device |-> v, printer_id |-> ip, timestamp |-> t, metrics |-> [m EXCEPT !.model = md]] :
        v \in Proxies, ip \in Addrs, t \in {None, Some(7)},
        m \in {[NoMetrics EXCEPT !.total_pages = Some(10)]},
        md \in {None, Some(<<>>), Some(TextLab)}}

InitSink ==
    /\ config = [MODE |-> "cloud", retry_attempts |-> MaxRetry, enable_buffer |-> TRUE]
    /\ local = get_storage(config)
    /\ cloud = [printers |-> <<>>, rows |-> <<>>]
    /\ call = IdleCall
    /\ ncalls = 0
    /\ returned = [o \in Callers |-> None]
    /\ known = {}
    /\ NoPass
    /\ NoStore
    /\ NoDecode
    /\ NoScan
    /\ clock = 0
    /\ NoQuery
    /\ NoFactory
    /\ NoEntry
    /\ server \in {[IdleServer EXCEPT !.printers = PrinterTable(P),
                                       !.devices = [v \in Proxies |-> [id |-> v, last_seen_at |-> 0]],
                                       !.now = 1] :
                        P \in SUBSET (Addrs \X Proxies)}

\* One POST /api/v1/metrics of an authenticated device is served
Ingest ==
    /\ server.served < MaxIngest
    /\ \E req \in IngestRequests :
          server' = [ingest_metrics([server EXCEPT !.request = req], req)
                        EXCEPT !.served = @ + 1, !.now = @ + 1]
    /\ UNCHANGED storeVars
    /\ UNCHANGED passVars
    /\ UNCHANGED auxVars
    /\ UNCHANGED <<clock, query, factory, entry>>

NextSink == Ingest

SpecSink == InitSink /\ [][NextSink]_vars

-----------------------------------------------------------------------------
(* Properties *)

\* The Storage Port calls made so far: the last that returned to each caller
\* and the one running
Calls ==
    {Get(returned[o]) : o \in {x \in Callers : returned[x] # None}}
    \cup (IF call.pc \in {"request", "sleep"} THEN {call} ELSE {})

\* Every attempt of the call c failed and _make_request gave up
AllFailed(c) ==
    /\ Len(c.attempts) = config.retry_attempts
    /\ \A j \in 1..Len(c.attempts) : RequestException(c.attempts[j])

\* This step is the return of a Storage Port call
CallReturns == call'.pc = "returned" /\ (call.pc # "returned" \/ ncalls' # ncalls)

Buffering == config.MODE = "cloud" /\ config.enable_buffer

\* The save_metrics call of the task of device a returned True
Saved(a) ==
    /\ returned[a] # None
    /\ Get(returned[a]).op = "save_metrics"
    /\ Get(returned[a]).ip = a
    /\ Get(returned[a]).ret.ok

\* C1 (durability under sink outage): with buffering enabled, once
\* get_or_create_printer(a, ...) has returned a, every later save_metrics(a, s)
\* returns True, whatever the outcomes of the remote attempts of any call were
C1_Durability ==
    (/\ Buffering
     /\ call.pc = "returned"
     /\ call.op = "save_metrics"
     /\ call.ip \in known)
    => call.ret.ok

\* A registration that the sink answered, then a save of the same address that
\* the sink failed MaxRetry times and that returned True
C1_Witness ==
    /\ Buffering
    /\ config.retry_attempts = MaxRetry
    /\ call.pc = "returned"
    /\ call.op = "save_metrics"
    /\ call.ip \in known
    /\ \E i \in 1..Len(cloud.printers) : cloud.printers[i].ip = call.ip
    /\ AllFailed(call)
    /\ call.ret.ok

\* C2 (retry exhaustion, buffering enabled): a save_metrics whose N remote
\* attempts all failed makes exactly one call on the buffer, LocalStorage
\* save_metrics with the same address and sample, and returns what that call
\* returns; for an address registered in the buffer the buffer gains exactly
\* one row, which holds the sample, and the call returns True; the sink stores
\* nothing
C2_RetryExhaustionBuffered ==
    [][(/\ CallReturns
        /\ Buffering
        /\ call'.op = "save_metrics"
        /\ AllFailed(call'))
       => LET b == Local_save_metrics(Get(local), call'.ip, call'.metrics)
              before == Get(local).metrics
              after == Get(local').metrics
          IN /\ call'.buffered = <<[op |-> "save_metrics", ip |-> call'.ip,
                                    metrics |-> call'.metrics]>>
             /\ call'.ret.ok = b.ret
             /\ local' = Some(b.db)
             /\ cloud'.rows = cloud.rows
             /\ SelectPrinter(Get(local), call'.ip) # None =>
                   /\ call'.ret.ok
                   /\ Len(after) = Len(before) + 1
                   /\ SubSeq(after, 1, Len(before)) = before
                   /\ after[Len(after)].printer_id = Get(SelectPrinter(Get(local), call'.ip)).id
                   /\ after[Len(after)].total_pages = call'.metrics.total_pages
                   /\ after[Len(after)].toner_level_pct = call'.metrics.toner_level_pct
                   /\ after[Len(after)].toner_status = call'.metrics.toner_status
       ]_vars

\* A save for a registered address has failed MaxRetry times and returned
\* True with one row in the buffer
C2_Witness ==
    /\ Buffering
    /\ config.retry_attempts = MaxRetry
    /\ call.pc = "returned"
    /\ call.op = "save_metrics"
    /\ AllFailed(call)
    /\ Len(call.buffered) = 1
    /\ call.ret.ok
    /\ Len(Get(local).metrics) = 1
    /\ cloud.rows = <<>>

\* C3 (retry exhaustion, buffering disabled): a CloudStorage constructed with
\* enable_buffer false has no LocalStorage, and a call whose N remote attempts
\* all failed makes no call on a buffer and returns False (save_metrics), None
\* (get_or_create_printer, get_printer_by_ip) or [] (get_printers)
C3_RetryExhaustionUnbuffered ==
    (config.MODE = "cloud" /\ ~config.enable_buffer) =>
        /\ local = None
        /\ (call.pc = "returned" /\ AllFailed(call)) =>
              /\ call.buffered = <<>>
              /\ call.op = "save_metrics" => ~call.ret.ok
              /\ call.op = "get_or_create_printer" => call.ret.ip = NoAddr
              /\ call.op = "get_printers" => call.ret.rows = <<>>
              /\ call.op = "get_printer_by_ip" => call.ret.row = None

\* Without a buffer the last of MaxCalls calls, a save, has failed MaxRetry
\* times and has returned False, and nothing is stored anywhere
C3_Witness ==
    /\ config.MODE = "cloud"
    /\ ~config.enable_buffer
    /\ config.retry_attempts = MaxRetry
    /\ ncalls = MaxCalls
    /\ call.pc = "returned"
    /\ call.op = "save_metrics"
    /\ AllFailed(call)
    /\ ~call.ret.ok
    /\ local = None
    /\ cloud.rows = <<>>

\* C4 (bounded retry): one _make_request call makes at most N attempts, makes
\* none after an attempt that succeeded, and when every attempt failed it has
\* made exactly N of them when it returns, and it returns None
C4_BoundedRetry ==
    config.MODE = "cloud" =>
        /\ Len(call.attempts) <= config.retry_attempts
        /\ \A j \in 1..(Len(call.attempts) - 1) : RequestException(call.attempts[j])
        /\ call.pc \in {"request", "sleep"} =>
              /\ \A j \in 1..Len(call.attempts) : RequestException(call.attempts[j])
              /\ Len(call.attempts) < config.retry_attempts
        /\ call.pc = "returned" =>
              IF \A j \in 1..Len(call.attempts) : RequestException(call.attempts[j])
              THEN Len(call.attempts) = config.retry_attempts /\ call.result = <<None>>
              ELSE call.result # <<None>>

\* A call has returned None after MaxRetry failed attempts
C4_Witness ==
    /\ config.MODE = "cloud"
    /\ config.retry_attempts = MaxRetry
    /\ call.pc = "returned"
    /\ Len(call.attempts) = MaxRetry
    /\ AllFailed(call)
    /\ call.result = <<None>>

\* C5 (remote success is final): a save_metrics one of whose remote attempts
\* was answered with a 2xx status, whatever the body, returns True and makes no
\* call on the buffer; a call on the buffer is made only after all N attempts
\* failed
C5_RemoteSuccessIsFinal ==
    (config.MODE = "cloud" /\ call.pc = "returned" /\ call.op = "save_metrics") =>
        /\ (\E j \in 1..Len(call.attempts) : Answered2xx(call.attempts[j]))
              => (call.ret.ok /\ call.buffered = <<>>)
        /\ call.buffered # <<>> => AllFailed(call)

\* The next step of the coroutine of device d between two awaits
TaskStep(d) ==
    \/ PagesReturns(d)
    \/ ModelReturns(d)
    \/ StatusReturns(d)
    \/ SupplyReturns(d)
    \/ LastSupplyReturns(d)

Querying(d) == task[d].pc \in {"pages", "model", "status", "supply"}

\* C6 (no head-of-line blocking): while the task of one device waits, for the
\* answer to a query or inside the retry loop of its save_metrics, the task of
\* every other device whose query has been answered can take its next step
C6_NoHeadOfLineBlocking ==
    \A a, b \in Addrs :
        (a # b /\ (Querying(a) \/ task[a].pc = "save") /\ Querying(b))
            => ENABLED TaskStep(b)

\* C7 (per-device isolation): the sample handed to the storage for device a is
\* the decode of a's own answers, the result of a's task is the result of a's
\* own save_metrics call (False without one), and a's entry in the returned
\* map is the result of a's task; no answer of, and no fault in, another
\* device's task enters any of them
C7_PerDeviceIsolation ==
    \A a \in Addrs :
        /\ \A c \in Calls :
              c.owner = a =>
                  /\ c.ip = a
                  /\ Some(c.metrics) = get_printer_metrics_async(device[a])
        /\ task[a].pc = "done" =>
              task[a].ret = (returned[a] # None /\ Get(returned[a]).ret.ok)
        /\ status # <<>> => status[a] = task[a].ret

\* The pass has returned: device a answered everything and its sample was
\* saved, while the task of device b, which had answered its model, ended in
\* a fault
C7_Witness ==
    /\ status # <<>>
    /\ \E a, b \in Addrs :
          /\ device[a] = "full"
          /\ device[b] = "partial"
          /\ status[a]
          /\ ~status[b]
          /\ task[b].metrics.model # None
          /\ returned[a] # None
          /\ returned[b] = None

\* C8 (result map): the map a pass returns has exactly the addresses of the
\* pass as its keys, and the entry of an address is True if and only if a
\* sample of that device was handed to save_metrics in this pass and
\* save_metrics returned True for it
C8_ResultMap ==
    status # <<>> =>
        /\ DOMAIN status = {printers[i] : i \in 1..Len(printers)}
        /\ \A a \in DOMAIN status : status[a] <=> Saved(a)

\* The pass has returned a map with a True entry and with a False entry for a
\* device whose sample was handed to save_metrics, which returned False
C8_Witness ==
    /\ status # <<>>
    /\ \E a, b \in Addrs :
          /\ status[a]
          /\ ~status[b]
          /\ returned[b] # None
          /\ ~Get(returned[b]).ret.ok

\* C9 (pass termination with hung devices): once every query and every remote
\* attempt returns or times out, the pass returns its map; in the map a device
\* none of whose queries was answered has False, and a device that answered
\* and whose save_metrics returned True has True
C9_PassTerminates ==
    /\ <>(status # <<>>)
    /\ [](status # <<>> =>
            \A d \in Addrs :
                /\ device[d] = "hung" => ~status[d]
                /\ (device[d] # "hung" /\ Saved(d)) => status[d])

\* The pass has returned with False for a hung device and True for a device
\* that answered and whose sample the sink failed MaxRetry times before the
\* buffer took it
C9_Witness ==
    /\ status # <<>>
    /\ \E a, b \in Addrs :
          /\ device[a] = "hung"
          /\ ~status[a]
          /\ device[b] = "full"
          /\ status[b]
          /\ returned[b] # None
          /\ Len(Get(returned[b]).attempts) = MaxRetry
          /\ AllFailed(Get(returned[b]))

\* C10 (empty samples are never submitted): a task that ended with every
\* field of its metrics dictionary None has made no Storage Port call and has
\* returned False, and the map has False for its device
C10_EmptyNeverSubmitted ==
    \A d \in Addrs :
        (task[d].pc = "done" /\ \A f \in MetricFields : task[d].metrics[f] = None) =>
            /\ \A c \in Calls : c.owner # d
            /\ ~task[d].ret
            /\ status # <<>> => ~status[d]

\* The pass has returned; one device answered nothing, the other answered
\* nothing that decodes, both were scanned to the last slot, and no Storage
\* Port call was made
C10_Witness ==
    /\ status # <<>>
    /\ \E a, b \in Addrs :
          /\ device[a] = "hung"
          /\ device[b] = "odd"
          /\ task[a].index = SupplySlots
          /\ task[b].index = SupplySlots
          /\ \A f \in MetricFields : task[a].metrics[f] = None /\ task[b].metrics[f] = None
          /\ ~status[a]
          /\ ~status[b]
    /\ Calls = {}

-----------------------------------------------------------------------------
(* Properties of the Local Store *)

\* This step is the return of a Storage Port call in which
\* LocalStorage.save_metrics ran, as the backend or as the buffer
LocalSaveRuns ==
    /\ CallReturns
    /\ call'.op = "save_metrics"
    /\ config.MODE = "local" \/ call'.buffered # <<>>

\* C11 (save against an unregistered address): LocalStorage.save_metrics for
\* an address that has no row in the printers table returns False and leaves
\* the printers table and the metrics table as they were, whatever they hold
C11_SaveUnregistered ==
    [][(LocalSaveRuns /\ SelectPrinter(Get(local), call'.ip) = None)
          => (~call'.ret.ok /\ local' = local)]_vars

\* A Local Store that holds a printer and a sample has returned False to a
\* save for an address it does not hold
C11_Witness ==
    /\ config.MODE = "local"
    /\ call.pc = "returned"
    /\ call.op = "save_metrics"
    /\ ~call.ret.ok
    /\ SelectPrinter(Get(local), call.ip) = None
    /\ Len(Get(local).printers) = 1
    /\ Len(Get(local).metrics) = 1

\* C12 (referential integrity): in every state of a LocalStorage, the
\* backend or the buffer of CloudStorage, the printer_id of every metrics
\* row is the id of a row of its printers table
C12_ReferentialIntegrity ==
    local # None =>
        \A i \in 1..Len(Get(local).metrics) :
            \E j \in 1..Len(Get(local).printers) :
                Get(local).printers[j].id = Get(local).metrics[i].printer_id

\* The buffer holds two printers and a sample of the second, written after
\* the sink failed MaxRetry times
C12_Witness ==
    /\ Buffering
    /\ call.pc = "returned"
    /\ call.op = "save_metrics"
    /\ AllFailed(call)
    /\ config.retry_attempts = MaxRetry
    /\ Len(Get(local).printers) = 2
    /\ Len(Get(local).metrics) = 1
    /\ Get(local).metrics[1].printer_id = 2

\* The rows of the printers table that hold the address ip
RowsOf(db, ip) == {i \in 1..Len(db.printers) : db.printers[i].ip = ip}

\* C13 (idempotent registration): a get_or_create_printer for an address the
\* printers table holds returns that address and leaves the table with the
\* one row of that address as it was, whatever name, location and model the
\* call brings; the row a first call stores holds the name, location and
\* model of that call, and no step changes a stored row
C13_IdempotentRegistration ==
    [][\A t \in Threads :
          LET f == thread[t]
              g == thread'[t]
              db == Get(local)
          IN /\ (/\ f.op = "get_or_create_printer"
                 /\ f.pc = "select"
                 /\ SelectPrinter(db, f.ip) # None
                 /\ g.pc = "returned"
                 /\ g.error = "")
                => /\ g.ret.ip = f.ip
                   /\ local' = local
                   /\ Cardinality(RowsOf(Get(local'), f.ip)) = 1
             /\ (/\ f.op = "get_or_create_printer"
                 /\ f.pc = "commit"
                 /\ g.pc = "returned"
                 /\ g.error = "")
                => /\ g.ret.ip = f.ip
                   /\ Get(local').printers =
                         Append(db.printers,
                                [id |-> Len(db.printers) + 1, ip |-> f.ip, name |-> f.name,
                                 location |-> f.location, model |-> f.model])
             /\ \A i \in 1..Len(db.printers) : Get(local').printers[i] = db.printers[i]
      ]_vars

\* A second call for a stored address has returned the address, and the row
\* holds a name and a location that are not those of this call
C13_Witness ==
    \E t \in Threads :
        /\ thread[t].pc = "returned"
        /\ thread[t].op = "get_or_create_printer"
        /\ thread[t].error = ""
        /\ thread[t].ret.ip = thread[t].ip
        /\ Cardinality(RowsOf(Get(local), thread[t].ip)) = 1
        /\ \E i \in RowsOf(Get(local), thread[t].ip) :
              /\ Get(local).printers[i].name # thread[t].name
              /\ Get(local).printers[i].location # thread[t].location

\* C14 (address uniqueness): in every state of the Local Store, under every
\* interleaving of get_or_create_printer calls, calls of two threads for the
\* same address among them, the printers table has at most one row per
\* address
C14_AddressUnique ==
    \A ip \in Addrs : Cardinality(RowsOf(Get(local), ip)) <= 1

\* Two threads registered the same address, both found no row, one
\* committed and the INSERT of the other failed on the UNIQUE constraint
C14_Witness ==
    \E t, u \in Threads :
        /\ t # u
        /\ thread[t].pc = "returned"
        /\ thread[u].pc = "returned"
        /\ thread[t].op = "get_or_create_printer"
        /\ thread[u].op = "get_or_create_printer"
        /\ thread[t].ip = thread[u].ip
        /\ thread[t].result = None
        /\ thread[t].ret.ip = thread[t].ip
        /\ thread[u].error = "IntegrityError"
        /\ Cardinality(RowsOf(Get(local), thread[t].ip)) = 1

\* C15 (none only on storage failure): a get_or_create_printer returns None
\* only when the storage failed (an error of the storage, or a write lock
\* that was not released within the timeout); two calls for the same
\* unregistered address that both run their SELECT before either runs its
\* INSERT both return the address
C15_NoneOnlyOnStorageFailure ==
    \A t \in Threads :
        (/\ thread[t].pc = "returned"
         /\ thread[t].op = "get_or_create_printer"
         /\ thread[t].ret.ip = NoAddr)
        => thread[t].error \in {"DatabaseError", "OperationalError"}

\* C16 (no fault escapes the Storage Port): every call of save_metrics,
\* get_or_create_printer, get_printers, get_printer_by_ip and health_check
\* ends by returning a value; none ends in an exception that reaches the
\* caller, whatever the remote sink answers
C16_NoFaultEscapes == call.pc # "raised"

-----------------------------------------------------------------------------
(* Properties of calculate_toner_percentage *)

\* The call has ended; what it returned, and its arguments as int() reads them
Decoded == decode.out # <<>>
DecodedPercentage == Get(decode.out)[1]
DecodedStatus == Get(decode.out)[2]
current_val == PyInt(decode.current)
max_val == PyInt(decode.max_capacity)

\* C17 (percentage range): every percentage calculate_toner_percentage
\* returns is an integer in 0..100; a current level above the capacity gives
\* a status, never a percentage above 100
C17_PercentageRange ==
    (Decoded /\ DecodedPercentage # None) => Get(DecodedPercentage) \in 0..100

\* C18 (the outcome is exclusive): for every pair of texts, numeric or not,
\* calculate_toner_percentage returns a percentage or a status, never both
\* and never neither
C18_ExclusiveOutcome ==
    Decoded => ((DecodedPercentage # None) # (DecodedStatus # None))

\* C19 (sentinel decoding): for every integer max_capacity, zero and
\* negative ones among them, a current of -3 gives (None, "OK"), a current
\* of -2 gives (None, "Unknown"), and every other negative current n gives
\* (None, "Status: n"); max_capacity is not looked at before
C19_SentinelDecoding ==
    \A n \in -5..(0 - 1), k \in -3..MaxCapacity :
        (Decoded /\ decode.current = IntText(n) /\ decode.max_capacity = IntText(k))
        => Get(decode.out) =
              <<None, Some(IF n = -3 THEN <<"O", "K">>
                           ELSE IF n = -2 THEN <<"U", "n", "k", "n", "o", "w", "n">>
                           ELSE <<"S", "t", "a", "t", "u", "s", ":", " ">> \o IntText(n))>>

\* -3 with a capacity of 0 has been decoded to (None, "OK")
C19_Witness ==
    /\ decode.current = <<"-", "3">>
    /\ decode.max_capacity = <<"0">>
    /\ decode.out = <<<<None, Some(<<"O", "K">>)>>>>

\* C20 (percentage formula): for integers current >= 0 and max > 0
\* calculate_toner_percentage returns (floor(current * 100 / max), None),
\* and the percentage is in 0..100 whenever current <= max
C20_PercentageFormula ==
    (/\ Decoded
     /\ current_val.ok /\ ~current_val.huge /\ current_val.val >= 0
     /\ max_val.ok /\ max_val.val > 0)
    => /\ Get(decode.out) = <<Some((current_val.val * 100) \div max_val.val), None>>
       /\ current_val.val <= max_val.val => Get(DecodedPercentage) \in 0..100


-----------------------------------------------------------------------------
(* Properties of get_printer_metrics_async *)

\* What get_supply_info returns for slot i of the scanned device
ScannedSupply(i) == supply_info([key \in SupplyKeys |-> ScanAnswer(scan.slots, i, key)])

\* Slot i is not skipped: it has a supply with a level and a capacity
Read(i) ==
    /\ ScannedSupply(i) # None
    /\ Truthy(Get(ScannedSupply(i))["current_level"])
    /\ Truthy(Get(ScannedSupply(i))["max_capacity"])

\* desc of slot i, as the loop computes it
DescOf(i) ==
    IF Get(ScannedSupply(i))["description"] = None THEN <<>>
    ELSE Lower(Get(Get(ScannedSupply(i))["description"]))

\* The branch of the loop slot i takes
RoutedToToner(i) ==
    Read(i) /\ Contains(DescOf(i), TextToner) /\ Contains(DescOf(i), TextBlack)

RoutedToDrum(i) ==
    Read(i) /\ ~RoutedToToner(i) /\ Contains(DescOf(i), TextDrumKey)

\* The lowest of a non-empty set of slot indices
First(S) == CHOOSE i \in S : \A j \in S : i <= j

\* The sample after slot i alone has been decoded into an empty one
Alone(i) == supply_step(NoMetrics, ScannedSupply(i))

\* C21 (first match wins): when the scan has returned, the toner fields of
\* the sample are those the lowest slot routed to black toner gives by
\* itself, and the drum field is the one the lowest slot routed to the drum
\* gives by itself; later slots of the channel change nothing
C21_FirstMatchWins ==
    scan.pc = "done" =>
        LET toner == {i \in 1..SupplySlots : RoutedToToner(i)}
            drum == {i \in 1..SupplySlots : RoutedToDrum(i)}
        IN /\ toner # {} =>
                /\ scan.metrics.toner_level_pct = Alone(First(toner)).toner_level_pct
                /\ scan.metrics.toner_status = Alone(First(toner)).toner_status
           /\ drum # {} =>
                scan.metrics.drum_level_pct = Alone(First(drum)).drum_level_pct


\* The level and the capacity of slot i as int() reads them
LevelOf(i) == PyInt(Get(Get(ScannedSupply(i))["current_level"]))
CapacityOf(i) == PyInt(Get(Get(ScannedSupply(i))["max_capacity"]))

\* C22 (end-to-end decode): for a device that reports total pages 4821, has
\* one black toner slot, with numeric levels 0 <= c <= m and m > 0, and one
\* drum slot, whose level is -3, the sample the scan returns has
\* total_pages = 4821, toner_level_pct = floor(100c/m), no toner_status, no
\* drum_level_pct and drum_status = "OK"
C22_EndToEndDecode ==
    \A t, d \in 1..SupplySlots :
        (/\ scan.pc = "done"
         /\ scan.pages = Value(<<"4", "8", "2", "1">>)
         /\ {i \in 1..SupplySlots : RoutedToToner(i)} = {t}
         /\ {i \in 1..SupplySlots : RoutedToDrum(i)} = {d}
         /\ LevelOf(t).ok /\ CapacityOf(t).ok
         /\ 0 <= LevelOf(t).val /\ LevelOf(t).val <= CapacityOf(t).val
         /\ LevelOf(d).ok /\ LevelOf(d).val = -3)
        => /\ scan.out # <<None>>
           /\ LET sample == Get(scan.out[1])
              IN /\ sample.total_pages = Some(4821)
                 /\ sample.toner_level_pct = Some((100 * LevelOf(t).val) \div CapacityOf(t).val)
                 /\ sample.toner_status = None
                 /\ sample.drum_level_pct = None
                 /\ "drum_status" \in DOMAIN sample
                 /\ sample.drum_status = Some(<<"O", "K">>)


\* What the decoder gives for the levels of slot i
DecodedSlot(i) ==
    calculate_toner_percentage(Get(Get(ScannedSupply(i))["current_level"]),
                               Get(Get(ScannedSupply(i))["max_capacity"]))

\* C23 (channel classification): a slot that is read goes to the black
\* toner channel exactly when its description contains, in any case, "toner"
\* and one of "black" and "blk"; otherwise it goes to the drum channel
\* exactly when its description contains "drum"; a slot that matches neither
\* changes no field of the sample
C23_ChannelClassification ==
    [][scan.pc = "supply" =>
        LET i == scan.index
            toner == /\ Contains(DescOf(i), <<"t", "o", "n", "e", "r">>)
                     /\ \/ Contains(DescOf(i), <<"b", "l", "a", "c", "k">>)
                        \/ Contains(DescOf(i), <<"b", "l", "k">>)
            drum == ~toner /\ Contains(DescOf(i), <<"d", "r", "u", "m">>)
        IN scan'.metrics =
              IF ~Read(i) THEN scan.metrics
              ELSE IF toner
              THEN IF DecodedSlot(i)[1] # None
                   THEN [scan.metrics EXCEPT !.toner_level_pct = DecodedSlot(i)[1]]
                   ELSE [scan.metrics EXCEPT !.toner_status = DecodedSlot(i)[2]]
              ELSE IF drum /\ DecodedSlot(i)[1] # None
              THEN [scan.metrics EXCEPT !.drum_level_pct = DecodedSlot(i)[1]]
              ELSE scan.metrics
      ]_vars


-----------------------------------------------------------------------------
(* Properties of the Remote Store *)

\* C24 (error statuses are retried like network failures): an attempt that
\* was answered with an error status is followed by the delay and the next
\* attempt unless it was the N-th; a call whose attempts all failed, by an
\* error status or by a network failure, has made N attempts and slept
\* between them, N - 1 times, when it gives up, and a save_metrics then makes
\* its one call on the buffer
C24_ErrorStatusRetried ==
    config.MODE = "cloud" =>
        /\ call.pc = "request" => call.sleeps = Len(call.attempts)
        /\ call.pc = "sleep" =>
              /\ call.sleeps = Len(call.attempts) - 1
              /\ Len(call.attempts) < config.retry_attempts
        /\ (call.pc \in {"returned", "raised"} /\ Len(call.attempts) > 0) =>
              /\ call.sleeps = Len(call.attempts) - 1
              /\ call.attempts[Len(call.attempts)] = "status" =>
                    /\ Len(call.attempts) = config.retry_attempts
                    /\ call.result = <<None>>
                    /\ (call.op = "save_metrics" /\ config.enable_buffer) =>
                          call.buffered = <<[op |-> "save_metrics", ip |-> call.ip,
                                             metrics |-> call.metrics]>>
                    /\ (call.op = "save_metrics" /\ ~config.enable_buffer) => ~call.ret.ok

\* A save_metrics every one of whose MaxRetry attempts was answered with an
\* error status has slept between them and has gone to the buffer
C24_Witness ==
    /\ Buffering
    /\ config.retry_attempts = MaxRetry
    /\ call.pc = "returned"
    /\ call.op = "save_metrics"
    /\ Len(call.attempts) = MaxRetry
    /\ \A j \in 1..Len(call.attempts) : call.attempts[j] = "status"
    /\ call.sleeps = MaxRetry - 1
    /\ Len(call.buffered) = 1


C26_TimestampPreserved ==
    (call.pc = "returned" /\ call.op = "save_metrics" /\ call.ret.ok) =>
        IF config.MODE = "local" \/ call.buffered # <<>>
        THEN Some(Get(local).metrics[Len(Get(local).metrics)].timestamp) = call.timestamp
        ELSE cloud.rows[Len(cloud.rows)].timestamp = call.timestamp


\* The call c as its caller made it
Request(c) ==
    [IdleCall EXCEPT !.op = c.op, !.owner = c.owner, !.ip = c.ip, !.name = c.name,
                     !.location = c.location, !.model = c.model, !.metrics = c.metrics,
                     !.timestamp = c.timestamp]

\* C27 (backend equivalence under degradation): with buffering enabled, a
\* get_or_create_printer, save_metrics, get_printers or get_printer_by_ip
\* call of CloudStorage all of whose attempts failed returns what
\* LocalStorage returns for the same call on a database equal to the buffer,
\* and leaves the buffer as LocalStorage leaves that database; so over a
\* sequence of such calls CloudStorage returns what a LocalStorage given the
\* same sequence returns and its buffer ends in that LocalStorage's state
C27_DegradedEquivalence ==
    [][(/\ CallReturns
        /\ Buffering
        /\ AllFailed(call')
        /\ call'.op \in {"get_or_create_printer", "save_metrics", "get_printers",
                         "get_printer_by_ip"})
       => LET store == Local_call(Request(call'), local)
          IN /\ call'.ret = store.call.ret
             /\ local' = store.local
      ]_vars

\* The sink has accepted nothing; MaxCalls calls have failed MaxRetry times
\* each, the last a get_printer_by_ip that returned the row of the buffer,
\* which holds a sample as well
C27_Witness ==
    /\ Buffering
    /\ config.retry_attempts = MaxRetry
    /\ ncalls = MaxCalls
    /\ cloud = [printers |-> <<>>, rows |-> <<>>]
    /\ call.pc = "returned"
    /\ call.op = "get_printer_by_ip"
    /\ AllFailed(call)
    /\ call.ret.row # None
    /\ Len(Get(local).metrics) = 1


-----------------------------------------------------------------------------
(* Properties of snmp_get *)

\* C28 (the device query fails soft): snmp_get returns None when the
\* transport reports an error indication (a timeout among them) or an error
\* status or raises, and when the text of the value contains "No Such" or
\* has nothing but whitespace in it; in every other case it returns the text
\* of the value as it is.  It returns in every case
C28_QueryFailsSoft ==
    query.out # <<>> =>
        query.out[1] =
            IF query.answer.kind \in {"errorIndication", "errorStatus", "exception"} THEN None
            ELSE IF \/ \E i \in 1..(Len(query.answer.text) - 6) :
                          SubSeq(query.answer.text, i, i + 6) = <<"N", "o", " ", "S", "u", "c", "h">>
                    \/ \A i \in 1..Len(query.answer.text) :
                          query.answer.text[i] \in {" ", "\t", "\n", "\r"}
            THEN None
            ELSE Some(query.answer.text)

\* A numeral with whitespace around it has been returned as it is
C28_Witness ==
    /\ query.answer = [kind |-> "value", text |-> <<" ", "7", "\n">>]
    /\ query.out = <<<<(<<" ", "7", "\n">>)>>>>


\* C29 (Remote Store health_check): CloudStorage.health_check returns True
\* exactly when one of its attempts, of which it makes at most N, was
\* answered with a 2xx status, and False otherwise; it makes no call on the
\* buffer, whose content it leaves as it is, and it ends in no exception
C29_HealthCheck ==
    [][(config.MODE = "cloud" /\ call'.op = "health_check") =>
          /\ local' = local
          /\ call'.buffered = <<>>
          /\ call'.pc # "raised"
          /\ call'.pc = "returned" =>
                (call'.ret.ok <=>
                    \E j \in 1..Len(call'.attempts) : call'.attempts[j] \in {"ok", "empty", "null"})
      ]_vars


\* The addresses that have a row in the printers table of the Local Store
RegisteredAddrs(store) ==
    IF store = None THEN {}
    ELSE {Get(store).printers[i].ip : i \in 1..Len(Get(store).printers)}

\* C30 (devices are never deleted): no step of a Storage Port operation takes
\* an address out of the printers table of the Local Store, the backend or
\* the buffer; an address once registered is registered in every later state
C30_NeverDeleted ==
    [][RegisteredAddrs(local) \subseteq RegisteredAddrs(local')]_vars

\* Two devices were registered and a save_metrics has returned after them;
\* both are registered
C30_Witness ==
    /\ ncalls = MaxCalls
    /\ call.pc = "returned"
    /\ call.op = "save_metrics"
    /\ RegisteredAddrs(local) = Addrs


\* C31 (uncomputable level): for every integer current >= 0 and every
\* integer max_capacity <= 0, 0 and -2 among them, calculate_toner_percentage
\* returns (None, "Cannot calculate"); the division is never reached, so no
\* ZeroDivisionError turns the answer into "Error"
C31_CannotCalculate ==
    (/\ Decoded
     /\ current_val.ok /\ current_val.val >= 0
     /\ max_val.ok /\ max_val.val <= 0)
    => Get(decode.out) =
          <<None, Some(<<"C","a","n","n","o","t"," ","c","a","l","c","u","l","a","t","e">>)>>

\* A level of 2 over a capacity of 0 has been decoded to "Cannot calculate"
C31_Witness ==
    /\ decode.current = <<"2">>
    /\ decode.max_capacity = <<"0">>
    /\ decode.out = <<<<None, Some(TextCannot)>>>>

-----------------------------------------------------------------------------
(* Properties of get_storage *)

-----------------------------------------------------------------------------
(* Properties of the delay between attempts *)

\* C33 (delay between attempts): in one _make_request call every failed
\* attempt but the last of the N is followed by one time.sleep: a call that
\* returns after k failed attempts and a success has slept k times, a call
\* that returns after N failed attempts has slept N - 1 times, and every
\* sleep lasts the same retry_delay seconds
C33_DelayBetweenAttempts ==
    [][/\ (config.MODE = "cloud" /\ call'.pc = "returned" /\ Len(call'.attempts) > 0) =>
            LET n == Len(call'.attempts)
            IN IF Answered2xx(call'.attempts[n])
               THEN call'.sleeps = n - 1
               ELSE n = config.retry_attempts /\ call'.sleeps = config.retry_attempts - 1
       /\ (call.pc = "sleep" /\ call'.pc = "request") =>
            /\ call'.sleeps = call.sleeps + 1
            /\ clock' = clock + RetryDelay
       /\ (call.pc = "request" /\ call'.pc = "sleep") =>
            /\ Len(call'.attempts) = call.sleeps + 1
            /\ clock' = clock
       /\ ~(call.pc = "sleep" /\ call'.pc = "request") => call'.sleeps \in {call.sleeps, 0}
      ]_vars

\* A call has returned after two failed attempts and a success, having
\* slept twice
C33_Witness ==
    /\ config.MODE = "cloud"
    /\ call.pc = "returned"
    /\ call.attempts = <<"neterr", "status", "ok">>
    /\ call.sleeps = 2
    /\ clock = RetryDelay + RetryDelay

-----------------------------------------------------------------------------
(* Properties of the submitted sample *)

\* C34 (a submitted sample never carries both outcomes for one channel): in
\* every metrics dictionary a monitor_printer task hands to save_metrics,
\* toner_level_pct and toner_status are not both set, also when several
\* slots of the poll are black toner and decode to different outcomes
C34_OneOutcomePerChannel ==
    \A c \in Calls :
        (c.op = "save_metrics" /\ c.owner # NoAddr) =>
            ~(c.metrics.toner_level_pct # None /\ c.metrics.toner_status # None)

-----------------------------------------------------------------------------
(* Properties of the fallback writes of one pass *)

\* The save_metrics call of the task of device d went to the buffer and
\* returned True
BufferedTrue(d) ==
    /\ returned[d] # None
    /\ Get(returned[d]).op = "save_metrics"
    /\ Get(returned[d]).buffered # <<>>
    /\ Get(returned[d]).ret.ok

\* The metrics rows of the buffer that belong to the printer with address d
BufferRows(d) ==
    {i \in 1..Len(Get(local).metrics) :
        \E p \in 1..Len(Get(local).printers) :
            /\ Get(local).printers[p].ip = d
            /\ Get(local).metrics[i].printer_id = Get(local).printers[p].id}

-----------------------------------------------------------------------------
(* Properties of a sample with missed variables *)

\* What the answer to one basic query gives by itself
AnsweredText(d, var) == snmp_get(Answer(device[d], var))

AnsweredInt(d, var) ==
    IF Truthy(AnsweredText(d, var)) /\ PyInt(Get(AnsweredText(d, var))).ok
    THEN Some(PyInt(Get(AnsweredText(d, var))).val)
    ELSE None

\* Task d has scanned its device to the last slot and no exception left the
\* scan
Scanned(d) == task[d].pc \in {"save", "done"} /\ task[d].error = ""

\* C36 (a missed variable only degrades the sample): when pages, model,
\* status or a field of a supply slot is answered with nothing or with a text
\* that does not parse, that field is None in the sample and every other
\* field holds what its own query gave; and a sample with at least one field
\* that is not None is handed to save_metrics as it is
C36_MissOnlyDegrades ==
    \A d \in Addrs :
        Scanned(d) =>
            LET m == task[d].metrics
                supplies == supply_scan(NoMetrics, device[d], 1)
            IN /\ m.total_pages = AnsweredInt(d, "pages")
               /\ m.model = (IF Truthy(AnsweredText(d, "model")) THEN AnsweredText(d, "model") ELSE None)
               /\ m.device_status = AnsweredInt(d, "status")
               /\ m.toner_level_pct = supplies.toner_level_pct
               /\ m.toner_status = supplies.toner_status
               /\ m.drum_level_pct = supplies.drum_level_pct
               /\ (\E f \in MetricFields : m[f] # None) =>
                    \E c \in Calls : c.owner = d /\ c.op = "save_metrics" /\ c.ip = d /\ c.metrics = m

\* A device that answers neither pages nor status: its sample, with the
\* model and the toner fields only, was saved
C36_Witness ==
    \E d \in Addrs :
        /\ device[d] = "partial"
        /\ task[d].pc = "done" /\ task[d].ret
        /\ task[d].metrics.total_pages = None
        /\ task[d].metrics.device_status = None
        /\ task[d].metrics.model = Some(TextHP)
        /\ returned[d] # None /\ Get(returned[d]).metrics = task[d].metrics

-----------------------------------------------------------------------------
(* Properties of the supply slot scan *)

\* Slot i lacks its description, its level or its capacity
Lacking(i) ==
    \E key \in {"description", "current_level", "max_capacity"} :
        ~Truthy(snmp_get(ScanAnswer(scan.slots, i, key)))

\* C37 (supply slot scan): a poll queries the supply slots 1, 2, ... up to
\* SupplySlots in this order and then returns; an empty slot does not end the
\* scan, so a black toner slot behind it is still decoded into the sample;
\* and a slot without description, level or capacity changes nothing in the
\* sample
C37_SupplySlotScan ==
    [][/\ (scan.pc = "status" /\ scan'.pc # "status") => scan'.pc = "supply" /\ scan'.index = 1
       /\ scan.pc = "supply" =>
            /\ scan.index \in 1..SupplySlots
            /\ IF scan.index < SupplySlots
               THEN scan'.pc = "supply" /\ scan'.index = scan.index + 1
               ELSE scan'.pc = "done" /\ scan'.index = scan.index
            /\ Lacking(scan.index) => scan'.metrics = scan.metrics
            /\ (RoutedToToner(scan.index) /\ DecodedSlot(scan.index)[1] # None) =>
                    scan'.metrics.toner_level_pct = DecodedSlot(scan.index)[1]
      ]_vars

\* The scan has returned after slot SupplySlots; slot 1 was empty, slot 2 had
\* no level, and the black toner of slot 3 is in the sample
C37_Witness ==
    /\ scan.pc = "done" /\ scan.index = SupplySlots
    /\ ~scan.slots[1].present
    /\ scan.slots[2].present /\ scan.slots[2].current = <<>>
    /\ scan.slots[3] = [present |-> TRUE, desc |-> TextBlackToner,
                         current |-> <<"4","5">>, max |-> <<"1","0","0">>]
    /\ scan.metrics.toner_level_pct = Some(45)
    /\ scan.metrics.toner_status = None


-----------------------------------------------------------------------------
(* Properties of the reads of the Remote Store *)

\* C38 (read policy of the Remote Store): get_printers and get_printer_by_ip
\* return the answer of the sink whenever an attempt was answered with a 2xx
\* status, an answer that lists no printer among them, and make no call on
\* the buffer then; only when every attempt failed do they return what the
\* buffer returns, or [] / None without a buffer
C38_ReadPolicy ==
    (/\ config.MODE = "cloud"
     /\ call.pc = "returned"
     /\ call.op \in {"get_printers", "get_printer_by_ip"})
    => IF \E j \in 1..Len(call.attempts) : Answered2xx(call.attempts[j])
       THEN call.buffered = <<>>
       ELSE IF local # None
       THEN /\ Len(call.buffered) = 1
            /\ call.ret.rows = Local_get_printers(Get(local)).ret \/ call.op # "get_printers"
            /\ call.ret.row = Local_get_printer_by_ip(Get(local), call.ip).ret \/ call.op # "get_printer_by_ip"
       ELSE call.buffered = <<>> /\ call.ret.rows = <<>> /\ call.ret.row = None

-----------------------------------------------------------------------------
(* Properties of main() *)

\* C39 (the entry point runs the pass): in once mode, and in every cycle of
\* loop mode, main() lists the printers of the storage and, when the list is
\* not empty, a polling pass over exactly these printers runs to its end
\* before the command exits or sleeps
C39_EntryRunsPass ==
    (/\ entry.command \in {"once", "loop"}
     /\ entry.pc \in {"exited", "raised", "sleep"}
     /\ entry.registered # {})
    => /\ entry.printers # <<>>
       /\ entry.polled = entry.registered


-----------------------------------------------------------------------------
(* Properties of ingest_metrics *)

\* The printer rows with the address ip that belong to the device v
Owned(db, ip, v) ==
    {i \in 1..Len(db.printers) : db.printers[i].ip = ip /\ db.printers[i].device_id = v}

\* C40 (sink-side ingest): a sample for a printer registered to the
\* authenticated device adds exactly one metrics row, of that printer, sets
\* the printer's connection_status to 'connected' and its last_seen_at to
\* the time of the request, replaces its model when the sample carries one
\* and leaves it otherwise, and changes no other printer; a sample for a
\* printer that is not registered to that device is answered 404 and changes
\* no row of any table
C40_SinkIngest ==
    [][server'.served = server.served + 1 =>
        LET req == server'.request
            own == Owned(server, req.printer_id, req.device)
        IN IF own # {}
           THEN /\ server'.reply.status = 201
                /\ Len(server'.metrics) = Len(server.metrics) + 1
                /\ SubSeq(server'.metrics, 1, Len(server.metrics)) = server.metrics
                /\ \E i \in own :
                      /\ server'.metrics[Len(server'.metrics)].printer_id = server.printers[i].id
                      /\ server'.metrics[Len(server'.metrics)].metrics = req.metrics
                      /\ server'.printers[i].connection_status = "connected"
                      /\ server'.printers[i].last_seen_at = server.now
                      /\ server'.printers[i].model =
                            (IF req.metrics.model # None /\ req.metrics.model # Some(<<>>)
                             THEN req.metrics.model ELSE server.printers[i].model)
                      /\ \A j \in 1..Len(server.printers) :
                            j # i => server'.printers[j] = server.printers[j]
                /\ Len(server'.printers) = Len(server.printers)
           ELSE /\ server'.reply.status = 404
                /\ server'.printers = server.printers
                /\ server'.metrics = server.metrics
                /\ server'.devices = server.devices
      ]_vars

\* Two requests were served: one for a printer of another device, answered
\* 404, and one that stored a row and a model for a registered printer
C40_Witness ==
    /\ server.served = 2
    /\ Len(server.metrics) = 1
    /\ server.reply.status = 201
    /\ \E i \in 1..Len(server.printers) :
          /\ server.printers[i].connection_status = "connected"
          /\ server.printers[i].model = Some(TextLab)
          /\ server.printers[i].last_seen_at > 0
    /\ \E i \in 1..Len(server.printers) : server.printers[i].connection_status = "unknown"

=============================================================================
